---- MODULE Spec2Model ----
(***************************************************************************)
(* CityDrivingSim: vehicle dynamics (Car), control smoothing (CarControls) *)
(* and the frame loop (DrivingSimulator).                                  *)
(*                                                                         *)
(* Numbers.  The program computes in IEEE doubles.  The model computes in  *)
(* fixed point: every real quantity q is held as the integer               *)
(* round(q * Scale), so speeds are in mm/s, times in ms, angles in mrad,   *)
(* pedal positions in 1/1000 and the boost meter in 1/1000 of a point.     *)
(* Products and quotients are rounded to nearest after every operation,    *)
(* in the order in which the source evaluates them.                        *)
(***************************************************************************)
EXTENDS Integers, Sequences, FiniteSets, TLC

VARIABLES
    car,        \* the Car driven by the loop: its physics fields
    ctl,        \* its CarControls: keys, smoothed inputs, cue and sound flags
    audio,      \* the SoundManager singleton and its startup audio element
    sim,        \* the DrivingSimulator: loop, timer and load state
    last,       \* history: the operation just performed and the state before it
    ticks,      \* history: number of Car.update calls so far
    keyEvents,  \* history: number of key events so far
    cuePlays    \* history: startup cue plays since the forward key went down

vars == <<car, ctl, audio, sim, last, ticks, keyEvents, cuePlays>>

Scale == 10 * 10 * 10

----------------------------------------------------------------------------
\* Arithmetic of the host language: Math and THREE.MathUtils

Abs(x) == IF x < 0 THEN -x ELSE x

Sign(x) == IF x > 0 THEN 1 ELSE IF x < 0 THEN -1 ELSE 0

Min(a, b) == IF a < b THEN a ELSE b

Max(a, b) == IF a > b THEN a ELSE b

Clamp(x, lo, hi) == Max(lo, Min(hi, x))

\* a / b rounded to nearest, b > 0, symmetric about zero
RDiv(a, b) ==
    LET x == Abs(a)
        q == x \div b
        r == x % b
    IN  Sign(a) * (IF 2 * r >= b THEN q + 1 ELSE q)

\* fixed-point product a * b: round(a * b / Scale), split so that no
\* intermediate leaves the 32-bit range of the model's integers
Mul(a, b) ==
    LET x == Abs(a)
        y == Abs(b)
        q == x \div Scale
        r == x % Scale
    IN  Sign(a) * Sign(b) * (q * y + RDiv(r * y, Scale))

\* fixed-point quotient a / b: round(a * Scale / b), b # 0
Div(a, b) ==
    LET x == Abs(a)
        y == Abs(b)
        q == x \div y
        r == x % y
    IN  Sign(a) * Sign(b) * (q * Scale + RDiv(r * Scale, y))

Pi == 3142

HalfPi == Pi \div 2

TwoPi == 2 * Pi

\* an angle brought into [0, TwoPi)
WrapAngle(a) == a % TwoPi

\* Math.sin on [-HalfPi, HalfPi]: the Taylor polynomial to x^9 in Horner form
SinCore(x) ==
    LET x2 == Mul(x, x)
        h4 == Scale - RDiv(x2, 72)
        h3 == Scale - RDiv(Mul(x2, h4), 42)
        h2 == Scale - RDiv(Mul(x2, h3), 20)
        h1 == Scale - RDiv(Mul(x2, h2), 6)
    IN  Mul(x, h1)

\* Math.sin of any angle, reduced to the first quadrant pair
Sin(a) ==
    LET w == WrapAngle(a)
        x == IF w > Pi THEN w - TwoPi ELSE w
    IN  IF x > HalfPi THEN SinCore(Pi - x)
        ELSE IF x < -HalfPi THEN SinCore(-Pi - x)
        ELSE SinCore(x)

\* Math.cos on [-HalfPi, HalfPi]: the Taylor polynomial to x^10 in Horner form
CosCore(x) ==
    LET x2 == Mul(x, x)
        h5 == Scale - RDiv(x2, 90)
        h4 == Scale - RDiv(Mul(x2, h5), 56)
        h3 == Scale - RDiv(Mul(x2, h4), 30)
        h2 == Scale - RDiv(Mul(x2, h3), 12)
    IN  Scale - RDiv(Mul(x2, h2), 2)

\* Math.cos of any angle
Cos(a) ==
    LET w == WrapAngle(a)
        x == IF w > Pi THEN w - TwoPi ELSE w
    IN  IF x > HalfPi THEN -CosCore(Pi - x)
        ELSE IF x < -HalfPi THEN -CosCore(-Pi - x)
        ELSE CosCore(x)

\* Math.tan, used on the steering angle only (|a| <= Pi / 4)
Tan(a) == Div(Sin(a), Cos(a))

\* Math.exp(-z) for z >= 0: e^-1 per whole unit, Taylor polynomial to f^7 on the rest
RECURSIVE ExpNeg(_)
ExpNeg(z) ==
    IF z >= Scale THEN Mul(368, ExpNeg(z - Scale))
    ELSE LET h6 == Scale - RDiv(z, 7)
             h5 == Scale - RDiv(Mul(z, h6), 6)
             h4 == Scale - RDiv(Mul(z, h5), 5)
             h3 == Scale - RDiv(Mul(z, h4), 4)
             h2 == Scale - RDiv(Mul(z, h3), 3)
             h1 == Scale - RDiv(Mul(z, h2), 2)
         IN  Scale - Mul(z, h1)

\* THREE.MathUtils.lerp(x, y, t) = (1 - t) * x + t * y
Lerp(x, y, t) == Mul(Scale - t, x) + Mul(t, y)

\* THREE.MathUtils.damp(x, y, lambda, dt) = lerp(x, y, 1 - exp(-lambda * dt))
Damp(x, y, lambda, dt) == Lerp(x, y, Scale - ExpNeg(Mul(lambda, dt)))

----------------------------------------------------------------------------
\* Car: physics constants (src/core/vehicle/Car.ts)

maxSpeed == 160 * Scale

maxAcceleration == 24 * Scale

maxSteeringAngle == Pi \div 4

wheelBase == (26 * Scale) \div 10

dragCoefficient == (2 * Scale) \div 100

rollingResistance == (2 * Scale) \div 10

engineBraking == (6 * Scale) \div 10

maxBrakeDecel == 18 * Scale

maxReverseSpeed == 14 * Scale

driftSteeringMultiplier == (15 * Scale) \div 10

boostMultiplier == 2 * Scale

boostMaxSpeed == 90 * Scale

boostFull == 100 * Scale

boostDrainRate == 30 * Scale

boostRegenRate == 15 * Scale

\* Numbers are IEEE doubles in the source.  The numeric fields a caller can
\* make non-finite are tracked in the field special of the car: "finite", or
\* "NaN", "+Inf", "-Inf", in which case the integer held for the field is 0.
NumericFields == {"speed", "throttleInput", "brakeInput", "steeringAngle", "x", "z"}

NonFinite == {"NaN", "+Inf", "-Inf"}

AllFinite == [f \in NumericFields |-> "finite"]

\* Math.max(lo, Math.min(hi, v)) for a non-finite v: NaN passes through both
\* calls, an infinity is cut to the bound on its side
ClampNonFinite(kind, lo, hi) ==
    IF kind = "NaN" THEN [special |-> "NaN", value |-> 0]
    ELSE IF kind = "+Inf" THEN [special |-> "finite", value |-> hi]
    ELSE [special |-> "finite", value |-> lo]

\* the state of a Car after its constructor
CarInit ==
    [ speed          |-> 0,
      throttleInput  |-> 0,
      brakeInput     |-> 0,
      steeringAngle  |-> 0,
      handbrakeActive |-> FALSE,
      isBoosting     |-> FALSE,
      boostAmount    |-> boostFull,
      heading        |-> 0,
      x              |-> 0,
      z              |-> 0,
      special        |-> AllFinite ]

\* mutant of Car_updateBoost: the drained meter is not floored at 0
Car_updateBoost_NoFloor(c, delta) ==
    IF c.isBoosting /\ c.boostAmount > 0
    THEN LET amount == c.boostAmount - Mul(boostDrainRate, delta)
         IN  [c EXCEPT !.boostAmount = amount,
                       !.isBoosting = IF amount <= 0 THEN FALSE ELSE c.isBoosting]
    ELSE IF ~c.isBoosting /\ c.boostAmount < boostFull
    THEN [c EXCEPT !.boostAmount =
                       Min(boostFull, c.boostAmount + Mul(boostRegenRate, delta))]
    ELSE c

\* mutant of Car_updateBoost: an emptied meter leaves the boost switched on
Car_updateBoost_KeepBoosting(c, delta) ==
    IF c.isBoosting /\ c.boostAmount > 0
    THEN [c EXCEPT !.boostAmount = Max(0, c.boostAmount - Mul(boostDrainRate, delta))]
    ELSE IF ~c.isBoosting /\ c.boostAmount < boostFull
    THEN [c EXCEPT !.boostAmount =
                       Min(boostFull, c.boostAmount + Mul(boostRegenRate, delta))]
    ELSE c

\* Car.update, boost meter step: drain while boosting, refill otherwise
Car_updateBoost(c, delta) ==
    IF c.isBoosting /\ c.boostAmount > 0
    THEN LET amount == Max(0, c.boostAmount - Mul(boostDrainRate, delta))
         IN  [c EXCEPT !.boostAmount = amount,
                       !.isBoosting = IF amount <= 0 THEN FALSE ELSE c.isBoosting]
    ELSE IF ~c.isBoosting /\ c.boostAmount < boostFull
    THEN [c EXCEPT !.boostAmount =
                       Min(boostFull, c.boostAmount + Mul(boostRegenRate, delta))]
    ELSE c

\* Car.update: the speed cap in force after the boost step
EffectiveMaxSpeed(c) == IF c.isBoosting THEN boostMaxSpeed ELSE maxSpeed

\* Car.update: sign used by engine braking and the brake
SpeedSign(speed, throttle) ==
    IF speed = 0 THEN (IF throttle >= 0 THEN 1 ELSE -1) ELSE Sign(speed)

\* mutant of NetAccel: aerodynamic drag left out
NetAccel_NoDrag(c) ==
    LET throttle  == Clamp(c.throttleInput, -Scale, Scale)
        brake     == Clamp(c.brakeInput, 0, Scale)
        speedSign == SpeedSign(c.speed, throttle)
        boostAccelMultiplier == IF c.isBoosting THEN boostMultiplier ELSE Scale
        engine0   == Mul(Mul(throttle, maxAcceleration), boostAccelMultiplier)
        engineAccel == IF throttle < 0 THEN Mul(engine0, (6 * Scale) \div 10)
                                       ELSE engine0
        rolling   == Mul(rollingResistance, c.speed)
        engineBrake == IF Abs(throttle) < (5 * Scale) \div 100
                       THEN engineBraking * speedSign ELSE 0
        brakeDecel == Mul(brake, maxBrakeDecel) * speedSign
    IN  engineAccel - rolling - engineBrake - brakeDecel

\* Car.update: net longitudinal acceleration (engine, drag, rolling, braking)
NetAccel(c) ==
    LET throttle  == Clamp(c.throttleInput, -Scale, Scale)
        brake     == Clamp(c.brakeInput, 0, Scale)
        speedSign == SpeedSign(c.speed, throttle)
        boostAccelMultiplier == IF c.isBoosting THEN boostMultiplier ELSE Scale
        engine0   == Mul(Mul(throttle, maxAcceleration), boostAccelMultiplier)
        engineAccel == IF throttle < 0 THEN Mul(engine0, (6 * Scale) \div 10)
                                       ELSE engine0
        drag      == Mul(Mul(dragCoefficient, c.speed), Abs(c.speed))
        rolling   == Mul(rollingResistance, c.speed)
        engineBrake == IF Abs(throttle) < (5 * Scale) \div 100
                       THEN engineBraking * speedSign ELSE 0
        brakeDecel == Mul(brake, maxBrakeDecel) * speedSign
    IN  engineAccel - drag - rolling - engineBrake - brakeDecel

\* Car.update: clamp of the integrated speed, one side per throttle sign
ClampSpeed(speed, throttle, cap) ==
    LET s1 == IF throttle >= 0 THEN Min(speed, cap) ELSE speed
    IN  IF throttle <= 0 THEN Max(s1, -maxReverseSpeed) ELSE s1

\* Car.update: stop very slow movement
SnapToZero(speed, throttle) ==
    IF Abs(speed) < (5 * Scale) \div 100 /\ Abs(throttle) < (5 * Scale) \div 100
    THEN 0 ELSE speed

\* Car.update, longitudinal step: integrate, clamp, snap
Car_updateSpeed(c, delta) ==
    LET throttle == Clamp(c.throttleInput, -Scale, Scale)
        s0 == c.speed + Mul(NetAccel(c), delta)
        s1 == ClampSpeed(s0, throttle, EffectiveMaxSpeed(c))
    IN  [c EXCEPT !.speed = SnapToZero(s1, throttle)]

\* mutant of Car_updateSlide: the slide does not ask for the handbrake
Car_updateSlide_NoHandbrake(c, delta) ==
    IF Abs(c.speed) > 2 * Scale /\ Abs(c.steeringAngle) > Scale \div 100
    THEN LET slideAmount ==
                 Mul(Mul(Mul(c.steeringAngle, Abs(c.speed)), (15 * Scale) \div 1000), delta)
         IN  [c EXCEPT !.x = c.x + Mul(Cos(c.heading), slideAmount),
                       !.z = c.z - Mul(Sin(c.heading), slideAmount)]
    ELSE c

\* Car.update: sideways slide while the handbrake is on
Car_updateSlide(c, delta) ==
    IF c.handbrakeActive /\ Abs(c.speed) > 2 * Scale
       /\ Abs(c.steeringAngle) > Scale \div 100
    THEN LET slideAmount ==
                 Mul(Mul(Mul(c.steeringAngle, Abs(c.speed)), (15 * Scale) \div 1000), delta)
         IN  [c EXCEPT !.x = c.x + Mul(Cos(c.heading), slideAmount),
                       !.z = c.z - Mul(Sin(c.heading), slideAmount)]
    ELSE c

\* mutant of RotationDelta: the |speed| > 0.1 guard left out
RotationDelta_NoSpeedGuard(c, delta) ==
    IF Abs(c.steeringAngle) > Scale \div 1000
    THEN LET steeringMultiplier ==
                 IF c.handbrakeActive THEN driftSteeringMultiplier ELSE Scale
             turnRadius == Div(wheelBase, Tan(c.steeringAngle))
             angularVelocity == Mul(Div(c.speed, turnRadius), steeringMultiplier)
         IN  Mul(angularVelocity, delta)
    ELSE 0

\* Car.update: yaw applied by the bicycle model in one update
RotationDelta(c, delta) ==
    IF Abs(c.steeringAngle) > Scale \div 1000 /\ Abs(c.speed) > Scale \div 10
    THEN LET steeringMultiplier ==
                 IF c.handbrakeActive THEN driftSteeringMultiplier ELSE Scale
             turnRadius == Div(wheelBase, Tan(c.steeringAngle))
             angularVelocity == Mul(Div(c.speed, turnRadius), steeringMultiplier)
         IN  Mul(angularVelocity, delta)
    ELSE 0

\* Car.update: rotate, then move along the direction taken before the rotation
Car_updateSteerMove(c, delta) ==
    LET dirX == Sin(c.heading)
        dirZ == Cos(c.heading)
        dist == Mul(c.speed, delta)
    IN  [c EXCEPT !.heading = WrapAngle(c.heading + RotationDelta(c, delta)),
                  !.x = c.x + Mul(dist, dirX),
                  !.z = c.z + Mul(dist, dirZ)]

\* Car.update(delta) of a car whose throttle, brake or speed is not finite:
\* netAccel is NaN (for an infinite speed, drag is an infinity of the same
\* sign and speed + netAccel * delta is Infinity - Infinity), Math.min and
\* Math.max return NaN, no comparison with NaN is true, so the speed stays
\* NaN, nothing slides or turns, and position.add(direction * NaN) makes
\* both coordinates NaN
Car_updateNonFinite(c, delta) ==
    [Car_updateBoost(c, delta) EXCEPT
        !.speed = 0, !.special.speed = "NaN",
        !.x = 0, !.special.x = "NaN",
        !.z = 0, !.special.z = "NaN"]

\* Car.update(delta) with finite throttle, brake and speed.  A NaN steering
\* angle fails both |steeringAngle| > ... guards, as the 0 held for it does; a
\* NaN coordinate stays NaN whatever is added to it.
Car_updateFinite(c, delta) ==
    LET r == Car_updateSteerMove(
                 Car_updateSlide(
                     Car_updateSpeed(Car_updateBoost(c, delta), delta), delta), delta)
    IN  [r EXCEPT !.x = IF c.special.x = "finite" THEN r.x ELSE 0,
                  !.z = IF c.special.z = "finite" THEN r.z ELSE 0]

\* Car.update(delta)
Car_update(c, delta) ==
    IF /\ c.special.speed = "finite"
       /\ c.special.throttleInput = "finite"
       /\ c.special.brakeInput = "finite"
    THEN Car_updateFinite(c, delta)
    ELSE Car_updateNonFinite(c, delta)

\* Car.setThrottle(value)
Car_setThrottle(c, value) ==
    [c EXCEPT !.throttleInput = Max(-Scale, Min(Scale, value)),
              !.special.throttleInput = "finite"]

\* Car.setThrottle(value) for a non-finite value
Car_setThrottleNonFinite(c, kind) ==
    LET r == ClampNonFinite(kind, -Scale, Scale)
    IN  [c EXCEPT !.throttleInput = r.value, !.special.throttleInput = r.special]

\* Car.setBrake(value)
Car_setBrake(c, value) ==
    [c EXCEPT !.brakeInput = Max(0, Min(Scale, value)),
              !.special.brakeInput = "finite"]

\* Car.setBrake(value) for a non-finite value
Car_setBrakeNonFinite(c, kind) ==
    LET r == ClampNonFinite(kind, 0, Scale)
    IN  [c EXCEPT !.brakeInput = r.value, !.special.brakeInput = r.special]

\* Car.setSteering(angle)
Car_setSteering(c, angle) ==
    [c EXCEPT !.steeringAngle = Max(-maxSteeringAngle, Min(maxSteeringAngle, angle)),
              !.special.steeringAngle = "finite"]

\* Car.setSteering(angle) for a non-finite angle
Car_setSteeringNonFinite(c, kind) ==
    LET r == ClampNonFinite(kind, -maxSteeringAngle, maxSteeringAngle)
    IN  [c EXCEPT !.steeringAngle = r.value, !.special.steeringAngle = r.special]

\* Car.setBoost(active)
Car_setBoost(c, active) ==
    [c EXCEPT !.isBoosting = IF active /\ c.boostAmount > 0 THEN TRUE ELSE FALSE]

\* Car.setHandbrake(active)
Car_setHandbrake(c, active) == [c EXCEPT !.handbrakeActive = active]

\* Car.setPosition(x, y, z)
Car_setPosition(c, px, pz) ==
    [c EXCEPT !.x = px, !.z = pz, !.special.x = "finite", !.special.z = "finite"]

\* Car.setRotation(y)
Car_setRotation(c, y) ==
    [c EXCEPT !.heading = WrapAngle(y), !.steeringAngle = 0,
              !.special.steeringAngle = "finite"]

\* Car.setSpeed(speed)
Car_setSpeed(c, speed) ==
    [c EXCEPT !.speed = speed, !.throttleInput = 0, !.brakeInput = 0,
              !.special.speed = "finite", !.special.throttleInput = "finite",
              !.special.brakeInput = "finite"]

\* Car.setSpeed(speed) for a non-finite speed: stored as it is
Car_setSpeedNonFinite(c, kind) ==
    [c EXCEPT !.speed = 0, !.throttleInput = 0, !.brakeInput = 0,
              !.special.speed = kind, !.special.throttleInput = "finite",
              !.special.brakeInput = "finite"]

\* mutant of Car_resetPhysics: the boost meter is refilled and the boost
\* flag is left alone
Car_resetPhysics_RefillBoost(c) ==
    [c EXCEPT !.speed = 0, !.throttleInput = 0, !.brakeInput = 0,
              !.steeringAngle = 0, !.handbrakeActive = FALSE,
              !.boostAmount = boostFull,
              !.special.speed = "finite", !.special.throttleInput = "finite",
              !.special.brakeInput = "finite", !.special.steeringAngle = "finite"]

\* Car.resetPhysics()
Car_resetPhysics(c) ==
    [c EXCEPT !.speed = 0, !.throttleInput = 0, !.brakeInput = 0,
              !.steeringAngle = 0, !.handbrakeActive = FALSE, !.isBoosting = FALSE,
              !.special.speed = "finite", !.special.throttleInput = "finite",
              !.special.brakeInput = "finite", !.special.steeringAngle = "finite"]

----------------------------------------------------------------------------
\* CarControls (src/core/vehicle/CarControls.ts) and the shared SoundManager

KeyNames == {"forward", "backward", "left", "right", "brake", "boost", "handbrake"}

throttleRiseRate == (35 * Scale) \div 10

throttleFallRate == 5 * Scale

brakeRiseRate == 6 * Scale

brakeFallRate == 8 * Scale

steerRate == 6 * Scale

steerReturnRate == 8 * Scale

\* the state of a CarControls after its constructor; keys is the set of
\* InputState flags that are true; engine and road are the isPlaying flags
\* of its EngineSoundGenerator and RoadSoundGenerator; prevCmd is history:
\* the start / stop calls update made on the two generators in the tick before
ControlsInit ==
    [ keys            |-> {},
      throttleInput   |-> 0,
      brakeInput      |-> 0,
      steeringInput   |-> 0,
      currentStartupSound |-> FALSE,
      previousWasAccelerating |-> FALSE,
      previousForwardPressedAtStandstill |-> FALSE,
      engine          |-> FALSE,
      road            |-> FALSE,
      prevCmd         |-> [engine |-> "none", road |-> "none"],
      listening       |-> TRUE ]

\* the SoundManager singleton: isEnabled, and whether its one 'startup'
\* audio element is playing (not paused, not ended, currentTime < duration)
AudioInit == [ enabled |-> TRUE, startup |-> FALSE ]

\* CarControls.handleKeyDown / handleKeyUp
CarControls_handleKeyDown(ct, k) == [ct EXCEPT !.keys = ct.keys \cup {k}]

CarControls_handleKeyUp(ct, k) == [ct EXCEPT !.keys = ct.keys \ {k}]

\* CarControls.update: is the startup cue still playing
IsStartupPlaying(ct, au) == ct.currentStartupSound /\ au.startup

\* CarControls.update: throttle target from the keys, gated by the startup cue
TargetThrottle(keys, isStartupPlaying) ==
    IF ~isStartupPlaying
    THEN IF "forward" \in keys THEN Scale
         ELSE IF "backward" \in keys THEN -((6 * Scale) \div 10)
         ELSE 0
    ELSE 0

\* CarControls.update: brake target from the keys
TargetBrake(keys) == IF "brake" \in keys THEN Scale ELSE 0

\* CarControls.update: smoothed throttle
SmoothThrottle(ct, target, delta) ==
    Damp(ct.throttleInput, target,
         IF target > ct.throttleInput THEN throttleRiseRate ELSE throttleFallRate,
         delta)

\* CarControls.update: smoothed brake
SmoothBrake(ct, target, delta) ==
    Damp(ct.brakeInput, target,
         IF target > ct.brakeInput THEN brakeRiseRate ELSE brakeFallRate,
         delta)

\* a steering authority that stays full up to 5 m/s and only then falls
SpeedFactor_Plateau(currentSpeed) ==
    Clamp(Scale - Div(Max(0, currentSpeed - 5 * Scale), 35 * Scale),
          (35 * Scale) \div 100, Scale)

\* CarControls.update: speed-dependent steering authority
SpeedFactor(currentSpeed) ==
    Clamp(Scale - Div(currentSpeed, 35 * Scale), (35 * Scale) \div 100, Scale)

\* CarControls.update: smoothed steering
SmoothSteering(ct, currentSpeed, delta) ==
    LET rawSteer == (IF "left" \in ct.keys THEN 1 ELSE 0)
                    + (IF "right" \in ct.keys THEN -1 ELSE 0)
        targetSteer == rawSteer * SpeedFactor(currentSpeed)
        rate == IF Abs(targetSteer) > Abs(ct.steeringInput)
                THEN steerRate ELSE steerReturnRate
    IN  Damp(ct.steeringInput, targetSteer, rate, delta)

\* CarControls.update: the startup cue is (re)started on the rising edge of
\* "forward pressed at standstill"
StartsCue(ct, forwardPressedAtStandstill) ==
    forwardPressedAtStandstill /\ ~ct.previousForwardPressedAtStandstill

\* CarControls.update: engine sound start / stop decision; returns the new
\* previousWasAccelerating flag and the command given to the generator
EngineStep(ct, isStartupPlaying, enabled, isAccelerating, currentSpeed) ==
    IF ~isStartupPlaying /\ enabled
    THEN IF isAccelerating \/ currentSpeed > Scale \div 10
         THEN [prev |-> TRUE,
               cmd  |-> IF ~ct.previousWasAccelerating THEN "start" ELSE "none"]
         ELSE [prev |-> FALSE,
               cmd  |-> IF ct.previousWasAccelerating THEN "stop" ELSE "none"]
    ELSE [prev |-> FALSE,
          cmd  |-> IF ct.previousWasAccelerating THEN "stop" ELSE "none"]

\* EngineSoundGenerator.setEnabled, start and stop acting on isPlaying
EnginePlaying(playing, enabled, cmd) ==
    LET p0 == IF enabled THEN playing ELSE FALSE
    IN  IF cmd = "start" THEN (IF enabled THEN TRUE ELSE p0)
        ELSE IF cmd = "stop" THEN FALSE
        ELSE p0

\* RoadSoundGenerator.setEnabled, update and stop acting on isPlaying
RoadPlaying(playing, isStartupPlaying, enabled, currentSpeed) ==
    IF ~isStartupPlaying /\ enabled
    THEN playing \/ currentSpeed > Scale \div 2
    ELSE FALSE

\* CarControls.update: what the tick asks of the RoadSoundGenerator:
\* stop() whenever the cue plays or the sound is muted, update() otherwise,
\* which starts the noise when it is not playing and the speed is above 0.5
RoadCommand(playing, isStartupPlaying, enabled, currentSpeed) ==
    IF ~isStartupPlaying /\ enabled
    THEN IF ~playing /\ currentSpeed > Scale \div 2 THEN "start" ELSE "none"
    ELSE "stop"

\* CarControls.update(delta): the new controls, car and audio, and what the
\* tick did (obs)
CarControls_update(ct, c, au, delta) ==
    LET isStartupPlaying == IsStartupPlaying(ct, au)
        targetThrottle == TargetThrottle(ct.keys, isStartupPlaying)
        targetBrake    == TargetBrake(ct.keys)
        throttleInput  == SmoothThrottle(ct, targetThrottle, delta)
        brakeInput     == SmoothBrake(ct, targetBrake, delta)
        currentSpeed   == Abs(c.speed)
        steeringInput  == SmoothSteering(ct, currentSpeed, delta)
        c1 == Car_setHandbrake(
                Car_setSteering(
                  Car_setBrake(Car_setThrottle(c, throttleInput), brakeInput),
                  Mul(steeringInput, maxSteeringAngle)),
                "handbrake" \in ct.keys)
        c2 == Car_setBoost(c1, "boost" \in ct.keys /\ c1.boostAmount > 0)
        isAtStandstill == currentSpeed < Scale \div 10
        throttleAmount == Max(0, throttleInput)
        isAccelerating == throttleAmount > Scale \div 10 /\ ~c2.isBoosting
        forwardPressedAtStandstill == isAtStandstill /\ "forward" \in ct.keys
        starts == StartsCue(ct, forwardPressedAtStandstill)
        played == starts /\ au.enabled
        ref    == IF starts THEN played ELSE ct.currentStartupSound
        au1    == IF starts
                  THEN [au EXCEPT !.startup =
                           IF played THEN TRUE
                           ELSE IF ct.currentStartupSound THEN FALSE
                           ELSE au.startup]
                  ELSE au
        eng    == EngineStep(ct, isStartupPlaying, au.enabled, isAccelerating,
                             currentSpeed)
        roadCmd == RoadCommand(ct.road, isStartupPlaying, au.enabled, currentSpeed)
    IN  [ ctl |-> [ct EXCEPT
                     !.throttleInput = throttleInput,
                     !.brakeInput = brakeInput,
                     !.steeringInput = steeringInput,
                     !.currentStartupSound = ref,
                     !.previousForwardPressedAtStandstill = forwardPressedAtStandstill,
                     !.previousWasAccelerating = eng.prev,
                     !.engine = EnginePlaying(ct.engine, au.enabled, eng.cmd),
                     !.road = RoadPlaying(ct.road, isStartupPlaying, au.enabled,
                                          currentSpeed),
                     !.prevCmd = [engine |-> eng.cmd, road |-> roadCmd]],
          car |-> Car_update(c2, delta),
          audio |-> au1,
          obs |-> [ isStartupPlaying |-> isStartupPlaying,
                    cueStarted |-> played,
                    throttle |-> c2.throttleInput,
                    brake |-> c2.brakeInput,
                    engineCmd |-> eng.cmd,
                    roadCmd |-> roadCmd,
                    prevCmd |-> ct.prevCmd,
                    preCar |-> c ] ]

\* CarControls.dispose(): cue stopped and forgotten, generators stopped,
\* listeners removed
CarControls_dispose(ct) ==
    [ct EXCEPT !.currentStartupSound = FALSE, !.engine = FALSE, !.road = FALSE,
               !.listening = FALSE]

----------------------------------------------------------------------------
\* SceneManager coordinate conversion and CityManager storage.  Latitudes
\* and longitudes are held in 1e-7 degree, local x and z in millimetres.

Cities == {"monaco", "rabat"}

\* CITY_CONFIGS[city].centerLat / centerLon
CityCenter(city) ==
    IF city = "monaco" THEN [lat |-> 437384000, lon |-> 74246000]
    ELSE [lat |-> 340209000, lon |-> -68416000]

\* Math.cos(centerLat * Math.PI / 180); 572958 is 1e7 * 180 / (1000 * PI)
CosCenterLat(city) == Cos(RDiv(CityCenter(city).lat, 572958))

\* R * Math.PI / 180 with R = 6371000, in 10 metres per degree: the
\* millimetres of one unit of latitude, times Scale
MetresPerDegree == 11119

\* an absent position (null / undefined)
NoPosition == [has |-> FALSE, lat |-> 0, lon |-> 0]

\* mutant of SceneManager_localToLatLon: the longitude is not divided by the
\* cosine of the centre latitude
SceneManager_localToLatLon_NoCos(city, x, z) ==
    LET c    == CityCenter(city)
        dLat == Div(-z, MetresPerDegree)
        dLon == Div(x, MetresPerDegree)
    IN  [has |-> TRUE, lat |-> c.lat + dLat, lon |-> c.lon + dLon]

\* SceneManager.localToLatLon(x, z) for the centre of the given city:
\* dLat = -z / R and dLon = x / (R * cos(centerLat)), in degrees
SceneManager_localToLatLon(city, x, z) ==
    LET c    == CityCenter(city)
        dLat == Div(-z, MetresPerDegree)
        dLon == Div(Div(x, MetresPerDegree), CosCenterLat(city))
    IN  [has |-> TRUE, lat |-> c.lat + dLat, lon |-> c.lon + dLon]

\* SceneManager.latLonToLocal(lat, lon) for the centre of the given city
SceneManager_latLonToLocal(city, lat, lon) ==
    LET c    == CityCenter(city)
        dLat == lat - c.lat
        dLon == lon - c.lon
    IN  [ x |-> Mul(Mul(dLon, MetresPerDegree), CosCenterLat(city)),
          z |-> -Mul(dLat, MetresPerDegree) ]

\* startPositionSaving: "position changed significantly", 0.00001 degree
SaveThreshold == 100

\* first coordinate of the first road feature of a loaded map, in local
\* coordinates; NoFeature stands for a coordinate that is not read
NoFeature == [has |-> FALSE, x |-> 0, z |-> 0]

FeatureStarts == { [has |-> TRUE, x |-> 25 * Scale, z |-> -(40 * Scale)] }

----------------------------------------------------------------------------
\* DrivingSimulator (src/core/DrivingSimulator.ts) and the page that owns it.
\* sim is the simulator the behaviour follows: animationId, positionSaveInterval
\* say whether the frame callback / the interval timer is registered; pending
\* holds the init calls that await SceneManager.loadCityMap; city and
\* startPosition are the SceneManager's; storage is the CityManager's
\* localStorage; disposed, loads, saves (timer firings) and saveFailures
\* (firings whose write threw) are history.

SimInit ==
    [ isLoaded             |-> FALSE,
      animationId          |-> FALSE,
      positionSaveInterval |-> FALSE,
      hasCar               |-> FALSE,
      clockRunning         |-> FALSE,
      pending              |-> << >>,
      city                 |-> "",
      startPosition        |-> [x |-> 0, z |-> 0],
      lastSavedPosition    |-> NoPosition,
      storage              |-> [c \in Cities |-> NoPosition],
      disposed             |-> FALSE,
      loads                |-> 0,
      saves                |-> 0,
      saveFailures         |-> 0 ]

\* controls that do not exist yet: no listener is registered
NoControls == [ControlsInit EXCEPT !.listening = FALSE]

\* CarControls.dispose() acting on the shared startup audio element
DisposeAudio(ct, au) ==
    IF ct.currentStartupSound THEN [au EXCEPT !.startup = FALSE] ELSE au

\* DrivingSimulator.init up to its await: SceneManager.loadCityMap has set
\* the current city and centre and waits for the map
DrivingSimulator_initCall(s, city, saved) ==
    [s EXCEPT !.city = city,
              !.pending = Append(s.pending, [city |-> city, saved |-> saved,
                                             call |-> s.loads + 1, reload |-> FALSE]),
              !.loads = s.loads + 1]

\* DrivingSimulator.reloadCity(city) up to init's await: isLoaded is cleared
\* and init is called with the city's saved position
DrivingSimulator_reloadCity(s, city) ==
    LET r == DrivingSimulator_initCall([s EXCEPT !.isLoaded = FALSE], city,
                                       s.storage[city])
    IN  [r EXCEPT !.pending[Len(r.pending)].reload = TRUE]

\* DrivingSimulator.init after the load: the vehicle of the new session
DrivingSimulator_initVehicle_KeepCar(c, start) == Car_setPosition(c, start.x, start.z)

DrivingSimulator_initVehicle(c, start) == Car_setPosition(CarInit, start.x, start.z)

\* the simulator after a successful init(city) with no saved position
LoadedSim(city, start) ==
    [ DrivingSimulator_initCall(SimInit, city, NoPosition)
        EXCEPT !.pending = << >>, !.startPosition = start, !.hasCar = TRUE,
               !.isLoaded = TRUE, !.positionSaveInterval = TRUE,
               !.animationId = TRUE, !.clockRunning = TRUE ]

\* DrivingSimulator.resetCarPosition(): the car is put at the map centre,
\* facing north, and its physics are reset; the CarControls are not touched
DrivingSimulator_resetCarPosition(s, c) ==
    LET centre == SceneManager_latLonToLocal(s.city, CityCenter(s.city).lat,
                                             CityCenter(s.city).lon)
    IN  Car_resetPhysics(Car_setRotation(Car_setPosition(c, centre.x, centre.z), 0))

\* a sequence without its i-th element
RemoveAt(q, i) == [j \in 1..(Len(q) - 1) |-> IF j < i THEN q[j] ELSE q[j + 1]]

\* DrivingSimulator.animate.  Observers are called channel by channel in
\* this order; an observer that throws ends the frame's callback there.
Channels == <<"speed", "heading", "boost", "coordinate">>

\* DrivingSimulator.getCarHeading(): the yaw of the direction vector in
\* degrees, in [0, 360) (held in 1/1000 degree)
DrivingSimulator_getCarHeading(c) == Mul(c.heading, 57296)

\* the values handed to the speed, heading, boost and coordinate observers,
\* derived from the car c (speed in 1/1000 km/h)
Telemetry(s, c) ==
    [ speed   |-> Abs(Mul(c.speed, 3600)),
      heading |-> DrivingSimulator_getCarHeading(c),
      boost   |-> c.boostAmount,
      coords  |-> SceneManager_localToLatLon(s.city, c.x, c.z) ]

NoTelemetry == [ speed |-> 0, heading |-> 0, boost |-> 0, coords |-> NoPosition ]

\* mutant of AnimateLoaded: the telemetry derived before the physics step
AnimateLoaded_TelemetryFirst(s, c, r, thrower) ==
    [ ctl |-> r.ctl, car |-> r.car, audio |-> r.audio,
      obs |-> [ isStartupPlaying |-> r.obs.isStartupPlaying,
                cueStarted |-> r.obs.cueStarted,
                engineCmd  |-> r.obs.engineCmd,
                roadCmd    |-> r.obs.roadCmd,
                prevCmd    |-> r.obs.prevCmd,
                surfaceAt  |-> [x |-> c.x, z |-> c.z],
                tele       |-> Telemetry(s, c),
                invoked    |-> IF thrower = 0 THEN 1..Len(Channels)
                               ELSE 1..thrower,
                rendered   |-> thrower = 0 ] ]

\* DrivingSimulator.animate, loaded branch, for a car c before the frame and
\* the result r of CarControls.update(delta) on it: the surface was sampled
\* at the position before the update, CarControls.update smoothed the inputs
\* and ran Car.update, then the telemetry is derived from the updated car
\* and handed to the observers; thrower is the channel whose observer throws
\* (0: none), which skips the observers after it, the FPS count and the
\* render
AnimateLoaded(s, c, r, thrower) ==
    [ ctl |-> r.ctl, car |-> r.car, audio |-> r.audio,
      obs |-> [ isStartupPlaying |-> r.obs.isStartupPlaying,
                cueStarted |-> r.obs.cueStarted,
                engineCmd  |-> r.obs.engineCmd,
                roadCmd    |-> r.obs.roadCmd,
                prevCmd    |-> r.obs.prevCmd,
                surfaceAt  |-> [x |-> c.x, z |-> c.z],
                tele       |-> Telemetry(s, r.car),
                invoked    |-> IF thrower = 0 THEN 1..Len(Channels)
                               ELSE 1..thrower,
                rendered   |-> thrower = 0 ] ]

\* the FPS fields of a DrivingSimulator after its constructor; reports is
\* history: for every call of the FPS observers the time, the number of
\* animate calls so far and the value passed
FpsInit == [ fps |-> 0, fpsFrames |-> 0, lastFpsUpdate |-> 0, reports |-> << >> ]

\* mutant of DrivingSimulator_countFrame: the frame counter is not reset
DrivingSimulator_countFrame_NoReset(f, now, calls) ==
    IF now >= f.lastFpsUpdate + 1000
    THEN [f EXCEPT !.fps = f.fpsFrames + 1,
                   !.fpsFrames = f.fpsFrames + 1,
                   !.lastFpsUpdate = now,
                   !.reports = Append(f.reports, [at |-> now, calls |-> calls,
                                                  value |-> f.fpsFrames + 1])]
    ELSE [f EXCEPT !.fpsFrames = f.fpsFrames + 1]

\* DrivingSimulator.animate, "Calculate FPS": now is performance.now() in ms
\* and calls the number of animate calls including this one
DrivingSimulator_countFrame(f, now, calls) ==
    IF now >= f.lastFpsUpdate + 1000
    THEN [f EXCEPT !.fps = f.fpsFrames + 1,
                   !.fpsFrames = 0,
                   !.lastFpsUpdate = now,
                   !.reports = Append(f.reports, [at |-> now, calls |-> calls,
                                                  value |-> f.fpsFrames + 1])]
    ELSE [f EXCEPT !.fpsFrames = f.fpsFrames + 1]

\* startPositionSaving, the condition under which the timer callback calls
\* CityManager.savePosition
ShouldSave_NoThreshold(s, c) == s.hasCar /\ s.isLoaded

ShouldSave(s, c) ==
    LET coords == SceneManager_localToLatLon(s.city, c.x, c.z)
        prev   == s.lastSavedPosition
    IN  /\ s.hasCar /\ s.isLoaded
        /\ \/ ~prev.has
           \/ Abs(coords.lat - prev.lat) > SaveThreshold
           \/ Abs(coords.lon - prev.lon) > SaveThreshold

\* CityManager.savePosition(city, position): localStorage.setItem, which
\* throws when the storage refuses the write
CityManager_savePosition(storage, city, position, writeFails) ==
    [ threw   |-> writeFails,
      storage |-> IF writeFails THEN storage
                  ELSE [storage EXCEPT ![city] = position] ]

\* mutant of DrivingSimulator_saveTimer: the position is remembered before
\* it is written
DrivingSimulator_saveTimer_RememberFirst(s, c, writeFails) ==
    LET coords == SceneManager_localToLatLon(s.city, c.x, c.z)
        w      == CityManager_savePosition(s.storage, s.city, coords, writeFails)
    IN  IF ~ShouldSave(s, c)
        THEN [ sim |-> [s EXCEPT !.saves = s.saves + 1], outcome |-> "saveSkipped" ]
        ELSE [ sim |-> [s EXCEPT !.storage = w.storage,
                                 !.lastSavedPosition = coords,
                                 !.saves = s.saves + 1,
                                 !.saveFailures = s.saveFailures
                                                  + (IF w.threw THEN 1 ELSE 0)],
               outcome |-> IF w.threw THEN "saveFailed" ELSE "saved" ]

\* the callback of the position-save interval: one savePosition call at
\* most; lastSavedPosition is assigned after the call, so an exception
\* leaves the callback before the assignment
DrivingSimulator_saveTimer(s, c, writeFails) ==
    LET coords == SceneManager_localToLatLon(s.city, c.x, c.z)
        w      == CityManager_savePosition(s.storage, s.city, coords, writeFails)
    IN  IF ~ShouldSave(s, c)
        THEN [ sim |-> [s EXCEPT !.saves = s.saves + 1], outcome |-> "saveSkipped" ]
        ELSE IF w.threw
        THEN [ sim |-> [s EXCEPT !.saves = s.saves + 1,
                                 !.saveFailures = s.saveFailures + 1],
               outcome |-> "saveFailed" ]
        ELSE [ sim |-> [s EXCEPT !.storage = w.storage,
                                 !.lastSavedPosition = coords,
                                 !.saves = s.saves + 1],
               outcome |-> "saved" ]

----------------------------------------------------------------------------
\* Bounds of the explored behaviours

\* Car.update calls per behaviour when the car is driven directly
MaxUpdates == 1

\* updates are not explored further from a speed beyond this (mm/s): the
\* products of the next update would leave the 32-bit integer range
MaxAbsSpeed == 1000000

\* frame deltas (ms): a stalled clock, 60 fps, 10 fps, a one-second hitch and
\* a frame after the tab was in the background
Deltas == {0, 16, 100, 1000, 4000}

\* what the history variable says about a step
Step(name, delta, preCar, o) ==
    [ name |-> name, delta |-> delta, preCar |-> preCar,
      isStartupPlaying |-> o.isStartupPlaying, cueStarted |-> o.cueStarted,
      engineCmd |-> o.engineCmd,
      roadCmd   |-> IF "roadCmd" \in DOMAIN o THEN o.roadCmd ELSE "none",
      prevCmd   |-> IF "prevCmd" \in DOMAIN o THEN o.prevCmd
                    ELSE [engine |-> "none", road |-> "none"],
      surfaceAt |-> IF "surfaceAt" \in DOMAIN o THEN o.surfaceAt ELSE [x |-> 0, z |-> 0],
      tele      |-> IF "tele" \in DOMAIN o THEN o.tele ELSE NoTelemetry,
      invoked   |-> IF "invoked" \in DOMAIN o THEN o.invoked ELSE {},
      rendered  |-> IF "rendered" \in DOMAIN o THEN o.rendered ELSE FALSE ]

NoObs == [ isStartupPlaying |-> FALSE, cueStarted |-> FALSE, engineCmd |-> "none" ]

\* a frame of a simulator that is not loaded: nothing but the render
IdleFrameObs == [ isStartupPlaying |-> FALSE, cueStarted |-> FALSE,
                  engineCmd |-> "none", rendered |-> TRUE ]

----------------------------------------------------------------------------
\* SpecCar: a Car driven directly through its public methods.  The initial
\* states are the states its setters (setSpeed, setThrottle, setBrake,
\* setSteering, setHandbrake, setBoost) and earlier updates can leave it in.

SpeedSamples == {-160 * Scale, -14 * Scale, 0, Scale, 30 * Scale, 160 * Scale}

ThrottleSamples == {-Scale, 0, Scale}

BrakeSamples == {0, Scale}

SteeringSamples == {0, maxSteeringAngle \div 2}

BoostSamples == { <<FALSE, boostFull>>, <<TRUE, boostFull>>, <<TRUE, 10 * Scale>>,
                  <<FALSE, 0>>, <<FALSE, 50 * Scale>> }

CarStates ==
    { [CarInit EXCEPT !.speed = s, !.throttleInput = t, !.brakeInput = b,
                      !.steeringAngle = a, !.handbrakeActive = h,
                      !.isBoosting = bo[1], !.boostAmount = bo[2]] :
        s \in SpeedSamples, t \in ThrottleSamples, b \in BrakeSamples,
        a \in SteeringSamples, h \in BOOLEAN, bo \in BoostSamples }

InitCar ==
    /\ car \in CarStates
    /\ ctl = ControlsInit
    /\ audio = AudioInit
    /\ sim = SimInit
    /\ last = Step("init", 0, car, NoObs)
    /\ ticks = 0
    /\ keyEvents = 0
    /\ cuePlays = 0

\* Car.update(delta) called directly
CarUpdate(delta) ==
    /\ ticks < MaxUpdates
    /\ Abs(car.speed) <= MaxAbsSpeed
    /\ car' = Car_update(car, delta)
    /\ last' = Step("update", delta, car, NoObs)
    /\ ticks' = ticks + 1
    /\ UNCHANGED <<ctl, audio, sim, keyEvents, cuePlays>>

\* Car.setBoost(active) called directly
CarSetBoost(active) ==
    /\ car' = Car_setBoost(car, active)
    /\ last' = Step("setBoost", 0, car, NoObs)
    /\ UNCHANGED <<ctl, audio, sim, ticks, keyEvents, cuePlays>>

\* Car.resetPhysics() called directly
CarResetPhysics ==
    /\ car' = Car_resetPhysics(car)
    /\ last' = Step("resetPhysics", 0, car, NoObs)
    /\ UNCHANGED <<ctl, audio, sim, ticks, keyEvents, cuePlays>>

NextCar ==
    \/ \E delta \in Deltas : CarUpdate(delta)
    \/ \E active \in BOOLEAN : CarSetBoost(active)
    \/ CarResetPhysics

SpecCar == InitCar /\ [][NextCar]_vars

----------------------------------------------------------------------------
\* SpecRamp: full throttle from rest with a fixed frame delta (setThrottle(1)
\* once, then Car.update(delta) repeated); the delta is chosen at the start
\* and kept in the history variable.

MaxRampTicks == 150

RampDeltas == {16, 100, 500, 1000}

InitRamp ==
    /\ car = Car_setThrottle(CarInit, Scale)
    /\ ctl = ControlsInit
    /\ audio = AudioInit
    /\ sim = SimInit
    /\ \E d \in RampDeltas : last = Step("init", d, car, NoObs)
    /\ ticks = 0
    /\ keyEvents = 0
    /\ cuePlays = 0

RampTick ==
    /\ ticks < MaxRampTicks
    /\ car' = Car_update(car, last.delta)
    /\ last' = Step("update", last.delta, car, NoObs)
    /\ ticks' = ticks + 1
    /\ UNCHANGED <<ctl, audio, sim, keyEvents, cuePlays>>

NextRamp == RampTick

SpecRamp == InitRamp /\ [][NextRamp]_vars

----------------------------------------------------------------------------
\* SpecCtl: one loaded session.  A CarControls drives a Car: key events
\* arrive between frames, every frame calls CarControls.update(delta) (which
\* ends with Car.update(delta)), the startup cue's audio element fires
\* 'ended', and the mute button toggles the SoundManager.  The 'startup'
\* sound is loaded and the browser lets it play.

\* CarControls.update calls per behaviour
MaxTicks == 3

\* user input events (key down, key up, mute click) per behaviour
MaxKeyEvents == 2

\* frame deltas (ms): 60 fps, 10 fps, a one-second hitch
CtlDeltas == {16, 100, 1000}

\* SoundManager.toggleMute(): muting stops every sound
SoundManager_toggleMute(au) ==
    [ enabled |-> ~au.enabled,
      startup |-> IF au.enabled THEN FALSE ELSE au.startup ]

InitCtl ==
    /\ car = CarInit
    /\ ctl = ControlsInit
    /\ audio = AudioInit
    /\ sim = SimInit
    /\ last = Step("init", 0, car, NoObs)
    /\ ticks = 0
    /\ keyEvents = 0
    /\ cuePlays = 0

\* a keydown event reaches handleKeyDown (a repeat of a held key changes
\* nothing and is left out)
KeyDown(k) ==
    /\ ctl.listening
    /\ keyEvents < MaxKeyEvents
    /\ k \notin ctl.keys
    /\ ctl' = CarControls_handleKeyDown(ctl, k)
    /\ keyEvents' = keyEvents + 1
    /\ last' = Step("keydown", 0, car, NoObs)
    /\ UNCHANGED <<car, audio, sim, ticks, cuePlays>>

\* a keyup event reaches handleKeyUp; cuePlays counts the cue starts of the
\* current hold of the forward key
KeyUp(k) ==
    /\ ctl.listening
    /\ keyEvents < MaxKeyEvents
    /\ k \in ctl.keys
    /\ ctl' = CarControls_handleKeyUp(ctl, k)
    /\ keyEvents' = keyEvents + 1
    /\ cuePlays' = IF k = "forward" THEN 0 ELSE cuePlays
    /\ last' = Step("keyup", 0, car, NoObs)
    /\ UNCHANGED <<car, audio, sim, ticks>>

\* one frame: CarControls.update(delta)
ControlsTick(delta) ==
    /\ ticks < MaxTicks
    /\ \E r \in {CarControls_update(ctl, car, audio, delta)} :
           /\ ctl' = r.ctl
           /\ car' = r.car
           /\ audio' = r.audio
           /\ cuePlays' = cuePlays + (IF r.obs.cueStarted THEN 1 ELSE 0)
           /\ last' = Step("tick", delta, car, r.obs)
    /\ ticks' = ticks + 1
    /\ UNCHANGED <<sim, keyEvents>>

\* the cue plays to its end: the element is ended and the 'ended' listener
\* of CarControls.update forgets the reference
StartupEnded ==
    /\ audio.startup
    /\ audio' = [audio EXCEPT !.startup = FALSE]
    /\ ctl' = [ctl EXCEPT !.currentStartupSound = FALSE]
    /\ last' = Step("ended", 0, car, NoObs)
    /\ UNCHANGED <<car, sim, ticks, keyEvents, cuePlays>>

\* the mute button: SoundManager.toggleMute()
ToggleMute ==
    /\ keyEvents < MaxKeyEvents
    /\ audio' = SoundManager_toggleMute(audio)
    /\ keyEvents' = keyEvents + 1
    /\ last' = Step("mute", 0, car, NoObs)
    /\ UNCHANGED <<car, ctl, sim, ticks, cuePlays>>

NextCtl ==
    \/ \E k \in KeyNames : KeyDown(k)
    \/ \E k \in KeyNames : KeyUp(k)
    \/ \E delta \in CtlDeltas : ControlsTick(delta)
    \/ StartupEnded
    \/ ToggleMute

SpecCtl == InitCtl /\ [][NextCtl]_vars

----------------------------------------------------------------------------
\* SpecSteer: the steering keys at speed.  The car is already rolling (the
\* speed is one that earlier driving or Car.setSpeed leaves it with) when
\* the CarControls, with the steering centred, start to receive the
\* steering keys and frames.

\* speeds (mm/s) around the two ends of the linear part of the steering
\* authority, forwards and in reverse
SteerSpeeds == {-14 * Scale, 0, Scale \div 2, 7 * Scale, 14 * Scale,
                22750, 23 * Scale, 40 * Scale}

SteerKeys == {"left", "right"}

InitSteer ==
    /\ \E v \in SteerSpeeds : car = Car_setSpeed(CarInit, v)
    /\ ctl = ControlsInit
    /\ audio = AudioInit
    /\ sim = SimInit
    /\ last = Step("init", 0, car, NoObs)
    /\ ticks = 0
    /\ keyEvents = 0
    /\ cuePlays = 0

NextSteer ==
    \/ \E k \in SteerKeys : KeyDown(k)
    \/ \E k \in SteerKeys : KeyUp(k)
    \/ \E delta \in CtlDeltas : ControlsTick(delta)

SpecSteer == InitSteer /\ [][NextSteer]_vars

----------------------------------------------------------------------------
\* Spec: the life of a DrivingSimulator on the page.  init and reloadCity
\* are called and their map loads complete later, in any order and with
\* either outcome; frames and the position-save timer fire while they are
\* registered; the user presses keys, mutes, resets the car; the page
\* disposes the simulator (unmount) or replaces it (selectCity).

\* init / reloadCity / selectCity calls, frames, user inputs (key events,
\* mute, reset) and position-save timer firings per behaviour, counted
\* together
MaxEvents == 4

Events == sim.loads + ticks + keyEvents + sim.saves

\* frame deltas (ms): 60 fps and a one-second hitch
FrameDeltas == {16, 1000}

\* the page's first selectCity(city): a simulator has been constructed and
\* its init(city) awaits the map
Init ==
    /\ car = CarInit
    /\ ctl = NoControls
    /\ audio = AudioInit
    /\ \E city \in Cities : sim = DrivingSimulator_initCall(SimInit, city, NoPosition)
    /\ last = Step("init", 0, car, NoObs)
    /\ ticks = 0
    /\ keyEvents = 0
    /\ cuePlays = 0

\* DrivingSimulator.reloadCity(city) is called and reaches init's await
ReloadCity(city) ==
    /\ ~sim.disposed
    /\ Events < MaxEvents
    /\ sim' = DrivingSimulator_reloadCity(sim, city)
    /\ last' = Step("reloadCity()", 0, car, NoObs)
    /\ UNCHANGED <<car, ctl, audio, ticks, keyEvents, cuePlays>>

\* the i-th pending map load fails: init's catch only notifies the observers
LoadFailed(i) ==
    /\ i \in 1..Len(sim.pending)
    /\ sim' = [sim EXCEPT !.pending = RemoveAt(sim.pending, i)]
    /\ last' = Step("loadFailed", 0, car, NoObs)
    /\ UNCHANGED <<car, ctl, audio, ticks, keyEvents, cuePlays>>

\* the i-th pending map load succeeds and init runs to its end: old controls
\* and car disposed, new car at the start position, new controls, isLoaded,
\* position saving started, and animate() called if no frame is scheduled.
\* That first frame runs inside init; its delta d is 0 when it starts the
\* clock and the time since the last frame otherwise.  feat is the map's
\* first road coordinate, read only when no saved position was passed.
LoadComplete(i, feat, d) ==
    /\ i \in 1..Len(sim.pending)
    /\ feat \in (IF sim.pending[i].saved.has THEN {NoFeature} ELSE FeatureStarts)
    /\ d \in (IF sim.clockRunning /\ ~sim.animationId THEN FrameDeltas ELSE {0})
    /\ LET req   == sim.pending[i]
           start == IF req.saved.has
                    THEN SceneManager_latLonToLocal(sim.city, req.saved.lat,
                                                    req.saved.lon)
                    ELSE IF feat.has THEN [x |-> feat.x, z |-> feat.z]
                    ELSE sim.startPosition
           au0   == IF sim.hasCar THEN DisposeAudio(ctl, audio) ELSE audio
           car0  == DrivingSimulator_initVehicle(car, start)
           delta == d
       IN  /\ sim' = [sim EXCEPT !.pending = RemoveAt(sim.pending, i),
                                 !.startPosition = start,
                                 !.hasCar = TRUE,
                                 !.isLoaded = TRUE,
                                 !.positionSaveInterval = TRUE,
                                 !.animationId = TRUE,
                                 !.clockRunning = TRUE]
           /\ IF sim.animationId
              THEN /\ car' = car0
                   /\ ctl' = ControlsInit
                   /\ audio' = au0
                   /\ last' = Step("loaded", 0, car, NoObs)
              ELSE \E u \in {CarControls_update(ControlsInit, car0, au0, delta)} :
                   \E r \in {AnimateLoaded(sim, car0, u, 0)} :
                   /\ car' = r.car
                   /\ ctl' = r.ctl
                   /\ audio' = r.audio
                   /\ last' = Step("loaded", delta, car, r.obs)
    /\ UNCHANGED <<ticks, keyEvents, cuePlays>>

\* a scheduled frame runs: DrivingSimulator.animate
Animate(delta) ==
    /\ sim.animationId
    /\ Events < MaxEvents
    /\ IF sim.isLoaded /\ sim.hasCar
       THEN \E u \in {CarControls_update(ctl, car, audio, delta)} :
            \E r \in {AnimateLoaded(sim, car, u, 0)} :
                /\ ctl' = r.ctl
                /\ car' = r.car
                /\ audio' = r.audio
                /\ cuePlays' = cuePlays + (IF r.obs.cueStarted THEN 1 ELSE 0)
                /\ last' = Step("frame", delta, car, r.obs)
       ELSE /\ last' = Step("idleFrame", delta, car, IdleFrameObs)
            /\ UNCHANGED <<ctl, car, audio, cuePlays>>
    /\ ticks' = ticks + 1
    /\ UNCHANGED <<sim, keyEvents>>

\* the position-save interval fires: the callback of startPositionSaving.
\* writeFails says whether localStorage refuses a write; it is read only
\* when the callback writes.
SaveTimerFire(writeFails) ==
    /\ sim.positionSaveInterval
    /\ Events < MaxEvents
    /\ writeFails => ShouldSave(sim, car)
    /\ \E r \in {DrivingSimulator_saveTimer(sim, car, writeFails)} :
           /\ sim' = r.sim
           /\ last' = Step(r.outcome, 0, car, NoObs)
    /\ UNCHANGED <<car, ctl, audio, ticks, keyEvents, cuePlays>>

\* DrivingSimulator.dispose(), called when the page is unmounted
Dispose ==
    /\ ~sim.disposed
    /\ sim' = [sim EXCEPT !.positionSaveInterval = FALSE,
                          !.animationId = FALSE,
                          !.disposed = TRUE]
    /\ ctl' = IF sim.hasCar THEN CarControls_dispose(ctl) ELSE ctl
    /\ audio' = IF sim.hasCar THEN DisposeAudio(ctl, audio) ELSE audio
    /\ last' = Step("dispose()", 0, car, NoObs)
    /\ UNCHANGED <<car, ticks, keyEvents, cuePlays>>

\* the page's selectCity(city): the simulator it holds is disposed, a new
\* one is constructed and its init is called; the behaviour follows the new
\* simulator from here on
SelectCity(city) ==
    /\ Events < MaxEvents
    /\ sim' = DrivingSimulator_initCall(
                [SimInit EXCEPT !.storage = sim.storage, !.loads = sim.loads,
                                !.saves = sim.saves],
                city, sim.storage[city])
    /\ car' = CarInit
    /\ ctl' = NoControls
    /\ audio' = IF sim.hasCar THEN DisposeAudio(ctl, audio) ELSE audio
    /\ cuePlays' = 0
    /\ last' = Step("selectCity()", 0, car, NoObs)
    /\ UNCHANGED <<ticks, keyEvents>>

\* DrivingSimulator.resetCarPosition(), from the reset button
ResetCarPosition ==
    /\ ~sim.disposed
    /\ sim.hasCar
    /\ Events < MaxEvents
    /\ car' = DrivingSimulator_resetCarPosition(sim, car)
    /\ keyEvents' = keyEvents + 1
    /\ last' = Step("reset", 0, car, NoObs)
    /\ UNCHANGED <<ctl, audio, sim, ticks, cuePlays>>

\* key events and the mute button while the page is in use
PressKey(k) ==
    /\ Events < MaxEvents
    /\ ctl.listening
    /\ k \notin ctl.keys
    /\ ctl' = CarControls_handleKeyDown(ctl, k)
    /\ keyEvents' = keyEvents + 1
    /\ last' = Step("keydown", 0, car, NoObs)
    /\ UNCHANGED <<car, audio, sim, ticks, cuePlays>>

ReleaseKey(k) ==
    /\ Events < MaxEvents
    /\ ctl.listening
    /\ k \in ctl.keys
    /\ ctl' = CarControls_handleKeyUp(ctl, k)
    /\ keyEvents' = keyEvents + 1
    /\ cuePlays' = IF k = "forward" THEN 0 ELSE cuePlays
    /\ last' = Step("keyup", 0, car, NoObs)
    /\ UNCHANGED <<car, audio, sim, ticks>>

ClickMute ==
    /\ Events < MaxEvents
    /\ audio' = SoundManager_toggleMute(audio)
    /\ keyEvents' = keyEvents + 1
    /\ last' = Step("mute", 0, car, NoObs)
    /\ UNCHANGED <<car, ctl, sim, ticks, cuePlays>>

Next ==
    \/ \E city \in Cities : ReloadCity(city)
    \/ \E i \in 1..MaxEvents : LoadFailed(i)
    \/ \E i \in 1..MaxEvents, feat \in FeatureStarts \cup {NoFeature},
          d \in FrameDeltas \cup {0} :
          LoadComplete(i, feat, d)
    \/ \E delta \in FrameDeltas : Animate(delta)
    \/ \E writeFails \in BOOLEAN : SaveTimerFire(writeFails)
    \/ Dispose
    \/ \E city \in Cities : SelectCity(city)
    \/ ResetCarPosition
    \/ \E k \in KeyNames : PressKey(k)
    \/ \E k \in KeyNames : ReleaseKey(k)
    \/ ClickMute
    \/ StartupEnded

Spec == Init /\ [][Next]_vars

----------------------------------------------------------------------------
\* SpecReset: the reset button in a loaded session.  As SpecCtl, in a
\* simulator whose init has completed, with DrivingSimulator.resetCarPosition
\* called between frames.

\* the keys pressed in these sessions
ResetKeys == {"forward", "backward", "left", "brake"}

InitReset ==
    /\ \E feat \in FeatureStarts :
          /\ sim = LoadedSim("monaco", [x |-> feat.x, z |-> feat.z])
          /\ car = DrivingSimulator_initVehicle(CarInit, [x |-> feat.x, z |-> feat.z])
    /\ ctl = ControlsInit
    /\ audio = AudioInit
    /\ last = Step("init", 0, car, NoObs)
    /\ ticks = 0
    /\ keyEvents = 0
    /\ cuePlays = 0

\* the reset button: DrivingSimulator.resetCarPosition(), pressed once the
\* car has been driven for a frame
ResetButton ==
    /\ sim.hasCar
    /\ last.name \in {"tick", "keyup"}
    /\ car' = DrivingSimulator_resetCarPosition(sim, car)
    /\ last' = Step("reset", 0, car, NoObs)
    /\ UNCHANGED <<ctl, audio, sim, ticks, keyEvents, cuePlays>>

NextReset ==
    \/ \E k \in ResetKeys : KeyDown(k)
    \/ \E k \in ResetKeys : KeyUp(k)
    \/ \E delta \in CtlDeltas : ControlsTick(delta)
    \/ StartupEnded
    \/ ResetButton

SpecReset == InitReset /\ [][NextReset]_vars

----------------------------------------------------------------------------
\* SpecApi: a Car driven by any sequence of calls of its public methods,
\* starting from the constructed car.  The numeric arguments are finite
\* samples on both sides of the clamps or NaN, +Infinity, -Infinity
\* (setRotation and update are called with finite arguments only).

\* method calls per behaviour
MaxCalls == 3

\* a numeric argument: a finite sample or a non-finite double
Args(samples) ==
    [kind : {"finite"}, value : samples] \cup [kind : NonFinite, value : {0}]

PedalArgs == Args({-(2 * Scale), 400, 3 * Scale})

SteeringArgs == Args({-(2 * Scale), 200, 2 * Scale})

SpeedArgs == Args({-(5 * Scale), 20 * Scale})

RotationArgs == {0, HalfPi}

ApiDeltas == {16, 100}

Calls == ticks + keyEvents

InitApi ==
    /\ car = CarInit
    /\ ctl = NoControls
    /\ audio = AudioInit
    /\ sim = SimInit
    /\ last = Step("init", 0, car, NoObs)
    /\ ticks = 0
    /\ keyEvents = 0
    /\ cuePlays = 0

\* one call of a public method of the Car
CallSetThrottle(a) ==
    /\ Calls < MaxCalls
    /\ car' = IF a.kind = "finite" THEN Car_setThrottle(car, a.value)
               ELSE Car_setThrottleNonFinite(car, a.kind)
    /\ keyEvents' = keyEvents + 1
    /\ last' = Step("setThrottle", 0, car, NoObs)
    /\ UNCHANGED <<ctl, audio, sim, ticks, cuePlays>>

CallSetBrake(a) ==
    /\ Calls < MaxCalls
    /\ car' = IF a.kind = "finite" THEN Car_setBrake(car, a.value)
               ELSE Car_setBrakeNonFinite(car, a.kind)
    /\ keyEvents' = keyEvents + 1
    /\ last' = Step("setBrake", 0, car, NoObs)
    /\ UNCHANGED <<ctl, audio, sim, ticks, cuePlays>>

CallSetSteering(a) ==
    /\ Calls < MaxCalls
    /\ car' = IF a.kind = "finite" THEN Car_setSteering(car, a.value)
               ELSE Car_setSteeringNonFinite(car, a.kind)
    /\ keyEvents' = keyEvents + 1
    /\ last' = Step("setSteering", 0, car, NoObs)
    /\ UNCHANGED <<ctl, audio, sim, ticks, cuePlays>>

CallSetSpeed(a) ==
    /\ Calls < MaxCalls
    /\ car' = IF a.kind = "finite" THEN Car_setSpeed(car, a.value)
               ELSE Car_setSpeedNonFinite(car, a.kind)
    /\ keyEvents' = keyEvents + 1
    /\ last' = Step("setSpeed", 0, car, NoObs)
    /\ UNCHANGED <<ctl, audio, sim, ticks, cuePlays>>

CallSetRotation(y) ==
    /\ Calls < MaxCalls
    /\ car' = Car_setRotation(car, y)
    /\ keyEvents' = keyEvents + 1
    /\ last' = Step("setRotation", 0, car, NoObs)
    /\ UNCHANGED <<ctl, audio, sim, ticks, cuePlays>>

CallResetPhysics ==
    /\ Calls < MaxCalls
    /\ car' = Car_resetPhysics(car)
    /\ keyEvents' = keyEvents + 1
    /\ last' = Step("resetPhysics", 0, car, NoObs)
    /\ UNCHANGED <<ctl, audio, sim, ticks, cuePlays>>

CallUpdate(delta) ==
    /\ Calls < MaxCalls
    /\ car' = Car_update(car, delta)
    /\ ticks' = ticks + 1
    /\ last' = Step("update", delta, car, NoObs)
    /\ UNCHANGED <<ctl, audio, sim, keyEvents, cuePlays>>

NextApi ==
    \/ \E a \in PedalArgs : CallSetThrottle(a)
    \/ \E a \in PedalArgs : CallSetBrake(a)
    \/ \E a \in SteeringArgs : CallSetSteering(a)
    \/ \E a \in SpeedArgs : CallSetSpeed(a)
    \/ \E y \in RotationArgs : CallSetRotation(y)
    \/ CallResetPhysics
    \/ \E delta \in ApiDeltas : CallUpdate(delta)

SpecApi == InitApi /\ [][NextApi]_vars

----------------------------------------------------------------------------
\* SpecStore: the CityManager's saved positions in localStorage.  A stored
\* text is a sequence of JSON tokens; sim.items is the storage (one item per
\* key), sim.latest the history of what was last written per city, and
\* sim.got the result of the last getSavedPosition.

\* savePosition / getSavedPosition calls and foreign writes per behaviour
MaxStoreOps == 3

\* positions (1e-7 degree, mm), with and without the optional y
StorePositions ==
    { [lat |-> 437384000, lon |-> 74246000, y |-> 500, hasY |-> TRUE],
      [lat |-> 437390000, lon |-> 74250000, y |-> 0, hasY |-> FALSE],
      [lat |-> 340209000, lon |-> -68416000, y |-> 500, hasY |-> TRUE] }

Token(kind, name, num) == [kind |-> kind, name |-> name, num |-> num]

\* JSON.stringify(position): {"lat":..,"lon":..,"y":..}, the y member left
\* out when y is undefined
JSON_stringify(position) ==
    <<Token("{", "", 0), Token("member", "lat", position.lat),
      Token("member", "lon", position.lon)>>
    \o (IF position.hasY THEN <<Token("member", "y", position.y)>> ELSE << >>)
    \o <<Token("}", "", 0)>>

\* what getSavedPosition returns for null
NullPosition == [isNull |-> TRUE, lat |-> 0, lon |-> 0, y |-> 0, hasY |-> FALSE]

\* JSON.parse(text): the value of a well-formed text (an object of number
\* members, or null), or a SyntaxError
JSON_parse(text) ==
    LET n == Len(text)
        members == { i \in 2..(n - 1) : text[i].kind = "member" }
        Has(name) == \E i \in members : text[i].name = name
        Num(name) == IF Has(name)
                     THEN text[CHOOSE i \in members :
                                  /\ text[i].name = name
                                  /\ \A j \in members : text[j].name = name => j <= i].num
                     ELSE 0
    IN  IF n = 1 /\ text[1].kind = "null"
        THEN [threw |-> FALSE, value |-> NullPosition]
        ELSE IF /\ n >= 2 /\ text[1].kind = "{" /\ text[n].kind = "}"
                /\ members = 2..(n - 1)
        THEN [threw |-> FALSE,
              value |-> [isNull |-> FALSE, lat |-> Num("lat"), lon |-> Num("lon"),
                         y |-> Num("y"), hasY |-> Has("y")]]
        ELSE [threw |-> TRUE, value |-> NullPosition]

\* texts that something else left under a position key: the empty string, a
\* truncated object, a word that is not JSON, and the JSON text null
ForeignTexts ==
    { << >>,
      <<Token("{", "", 0), Token("member", "lat", 437384000)>>,
      <<Token("garbage", "undefined", 0)>>,
      <<Token("null", "", 0)>> }

\* mutant of StorageKey: one key for all cities
StorageKey_NoCity(city) == <<"cityDrivingSim_lastPosition", "">>

\* `${STORAGE_KEY_POSITION}_${city}`
StorageKey(city) == <<"cityDrivingSim_lastPosition", city>>

NoItem == [present |-> FALSE, text |-> << >>]

\* CityManager.getSavedPosition(city)
CityManager_getSavedPosition(items, city) ==
    LET saved == items[StorageKey(city)]
    IN  IF ~saved.present \/ saved.text = << >>
        THEN NullPosition
        ELSE LET r == JSON_parse(saved.text)
             IN  IF r.threw THEN NullPosition ELSE r.value

\* CityManager.savePosition(city, position) when the write is accepted
CityManager_setPosition(items, city, position) ==
    [items EXCEPT ![StorageKey(city)] =
                      [present |-> TRUE, text |-> JSON_stringify(position)]]

InitStore ==
    /\ car = CarInit
    /\ ctl = ControlsInit
    /\ audio = AudioInit
    /\ sim = [ items  |-> [k \in {StorageKey(c) : c \in Cities} |-> NoItem],
               latest |-> [c \in Cities |-> NullPosition],
               got    |-> [city |-> "", value |-> NullPosition] ]
    /\ last = Step("init", 0, car, NoObs)
    /\ ticks = 0
    /\ keyEvents = 0
    /\ cuePlays = 0

\* CityManager.savePosition(city, position)
StoreSave(city, position) ==
    /\ ticks < MaxStoreOps
    /\ sim' = [sim EXCEPT !.items = CityManager_setPosition(sim.items, city, position),
                          !.latest[city] = [isNull |-> FALSE, lat |-> position.lat,
                                            lon |-> position.lon, y |-> position.y,
                                            hasY |-> position.hasY]]
    /\ ticks' = ticks + 1
    /\ last' = Step("savePosition", 0, car, NoObs)
    /\ UNCHANGED <<car, ctl, audio, keyEvents, cuePlays>>

\* something else writes a text under the city's position key
StoreForeign(city, text) ==
    /\ ticks < MaxStoreOps
    /\ sim' = [sim EXCEPT !.items[StorageKey(city)] = [present |-> TRUE, text |-> text],
                          !.latest[city] = NullPosition]
    /\ ticks' = ticks + 1
    /\ last' = Step("foreignWrite", 0, car, NoObs)
    /\ UNCHANGED <<car, ctl, audio, keyEvents, cuePlays>>

\* CityManager.getSavedPosition(city), as reloadCity and the page call it
StoreGet(city) ==
    /\ sim' = [sim EXCEPT !.got = [city |-> city,
                                   value |-> CityManager_getSavedPosition(sim.items, city)]]
    /\ last' = Step("getSavedPosition", 0, car, NoObs)
    /\ UNCHANGED <<car, ctl, audio, ticks, keyEvents, cuePlays>>

NextStore ==
    \/ \E city \in Cities, position \in StorePositions : StoreSave(city, position)
    \/ \E city \in Cities, text \in ForeignTexts : StoreForeign(city, text)
    \/ \E city \in Cities : StoreGet(city)

SpecStore == InitStore /\ [][NextStore]_vars

----------------------------------------------------------------------------
\* SpecGeo: the two coordinate conversions of the SceneManager applied one
\* after the other, as the program does when a position is saved by the
\* timer and restored by a later init, for every city centre and sampled
\* local positions and coordinates around it.

\* local coordinates (mm): up to 2 km from the centre
LocalSamples == {-(2000 * Scale), -12345, -1, 0, 7, 250 * Scale, 2000 * Scale}

\* offsets from the centre (1e-7 degree): up to 0.02 degree
GeoOffsets == {-200000, -1234, 0, 1, 99, 200000}

\* rounding of the model's units: coordinates are held in 1e-7 degree (about
\* 11 mm), local positions in mm
GeoTolerance == 2

LocalTolerance == 20

InitGeo ==
    /\ \E city \in Cities, x \in LocalSamples, z \in LocalSamples,
          dLat \in GeoOffsets, dLon \in GeoOffsets :
          /\ car = Car_setPosition(CarInit, x, z)
          /\ sim = [LoadedSim(city, [x |-> x, z |-> z]) EXCEPT
                       !.lastSavedPosition =
                           [has |-> TRUE, lat |-> CityCenter(city).lat + dLat,
                            lon |-> CityCenter(city).lon + dLon]]
    /\ ctl = ControlsInit
    /\ audio = AudioInit
    /\ last = Step("init", 0, car, NoObs)
    /\ ticks = 0
    /\ keyEvents = 0
    /\ cuePlays = 0

\* the car's position is converted by localToLatLon and written, and the
\* written coordinates are converted back by latLonToLocal
SaveThenRestore ==
    /\ last.name = "init"
    /\ \E coords \in {SceneManager_localToLatLon(sim.city, car.x, car.z)} :
       \E local \in {SceneManager_latLonToLocal(sim.city, coords.lat, coords.lon)} :
          /\ sim' = [sim EXCEPT !.storage[sim.city] = coords]
          /\ car' = Car_setPosition(car, local.x, local.z)
    /\ last' = Step("saveThenRestore", 0, car, NoObs)
    /\ UNCHANGED <<ctl, audio, ticks, keyEvents, cuePlays>>

\* the remembered coordinates are converted by latLonToLocal, the car is put
\* there, and its position is converted back by localToLatLon and written
RestoreThenSave ==
    /\ last.name = "init"
    /\ \E local \in {SceneManager_latLonToLocal(sim.city, sim.lastSavedPosition.lat,
                                                sim.lastSavedPosition.lon)} :
       \E coords \in {SceneManager_localToLatLon(sim.city, local.x, local.z)} :
          /\ car' = Car_setPosition(car, local.x, local.z)
          /\ sim' = [sim EXCEPT !.storage[sim.city] = coords]
    /\ last' = Step("restoreThenSave", 0, car, NoObs)
    /\ UNCHANGED <<ctl, audio, ticks, keyEvents, cuePlays>>

NextGeo ==
    \/ SaveThenRestore
    \/ RestoreThenSave

SpecGeo == InitGeo /\ [][NextGeo]_vars

----------------------------------------------------------------------------
\* SpecLoop: the frame loop of a loaded simulator whose observers may throw.
\* It starts where init has run to its end (map loaded, car at the start
\* position, controls listening, first frame scheduled); key events arrive
\* between frames and in every frame at most one observer throws.

\* frames per behaviour of the observed loop
MaxFrames == 2

InitLoop ==
    /\ \E city \in Cities, feat \in FeatureStarts :
          /\ sim = LoadedSim(city, [x |-> feat.x, z |-> feat.z])
          /\ car = DrivingSimulator_initVehicle(CarInit, [x |-> feat.x, z |-> feat.z])
    /\ ctl = ControlsInit
    /\ audio = AudioInit
    /\ last = Step("init", 0, car, NoObs)
    /\ ticks = 0
    /\ keyEvents = 0
    /\ cuePlays = 0

\* a scheduled frame of the loaded simulator runs; the observer of channel
\* thrower throws (0: none does).  The next frame was requested before
\* anything else, so animationId stays set.
ObservedFrame(delta, thrower) ==
    /\ sim.animationId /\ sim.isLoaded /\ sim.hasCar
    /\ ticks < MaxFrames
    /\ \E u \in {CarControls_update(ctl, car, audio, delta)} :
       \E r \in {AnimateLoaded(sim, car, u, thrower)} :
           /\ ctl' = r.ctl
           /\ car' = r.car
           /\ audio' = r.audio
           /\ cuePlays' = cuePlays + (IF r.obs.cueStarted THEN 1 ELSE 0)
           /\ last' = Step("frame", delta, car, r.obs)
    /\ ticks' = ticks + 1
    /\ UNCHANGED <<sim, keyEvents>>

NextLoop ==
    \/ \E k \in KeyNames : KeyDown(k)
    \/ \E k \in KeyNames : KeyUp(k)
    \/ \E delta \in FrameDeltas, thrower \in 0..Len(Channels) :
          ObservedFrame(delta, thrower)
    \/ StartupEnded

SpecLoop == InitLoop /\ [][NextLoop]_vars

----------------------------------------------------------------------------
\* SpecFps: the frame loop with its FPS counter and the wall clock.  sim
\* carries the FPS fields and now, the value of performance.now(); every
\* frame runs some time after the one before and its delta is that time;
\* reloadCity() and the end of its init switch isLoaded in between.  No key
\* is pressed and no observer throws.

\* frames per behaviour
MaxFpsFrames == 5

\* wall-clock time between two frames (ms)
FpsElapsed == {16, 400, 1000}

InitFps ==
    /\ \E city \in Cities, feat \in FeatureStarts :
          /\ sim = LoadedSim(city, [x |-> feat.x, z |-> feat.z])
                      @@ FpsInit @@ [now |-> 0]
          /\ car = DrivingSimulator_initVehicle(CarInit, [x |-> feat.x, z |-> feat.z])
    /\ ctl = ControlsInit
    /\ audio = AudioInit
    /\ last = Step("init", 0, car, NoObs)
    /\ ticks = 0
    /\ keyEvents = 0
    /\ cuePlays = 0

\* DrivingSimulator.animate, elapsed ms after the frame before
FpsAnimate(elapsed) ==
    /\ sim.animationId
    /\ ticks < MaxFpsFrames
    /\ LET now == sim.now + elapsed
           f   == DrivingSimulator_countFrame(
                      [n \in DOMAIN FpsInit |-> sim[n]], now, ticks + 1)
       IN  sim' = [sim EXCEPT !.now = now, !.fps = f.fps, !.fpsFrames = f.fpsFrames,
                              !.lastFpsUpdate = f.lastFpsUpdate,
                              !.reports = f.reports]
    /\ IF sim.isLoaded /\ sim.hasCar
       THEN \E u \in {CarControls_update(ctl, car, audio, elapsed)} :
            \E r \in {AnimateLoaded(sim, car, u, 0)} :
                /\ ctl' = r.ctl
                /\ car' = r.car
                /\ audio' = r.audio
                /\ last' = Step("frame", elapsed, car, r.obs)
       ELSE /\ last' = Step("idleFrame", elapsed, car, IdleFrameObs)
            /\ UNCHANGED <<ctl, car, audio>>
    /\ ticks' = ticks + 1
    /\ UNCHANGED <<keyEvents, cuePlays>>

\* reloadCity() is called: isLoaded is cleared until its init has the map
FpsReloadCity ==
    /\ sim.isLoaded
    /\ keyEvents < MaxKeyEvents
    /\ sim' = [sim EXCEPT !.isLoaded = FALSE]
    /\ keyEvents' = keyEvents + 1
    /\ last' = Step("reloadCity()", 0, car, NoObs)
    /\ UNCHANGED <<car, ctl, audio, ticks, cuePlays>>

\* the init of the reload runs to its end: a new car and new controls, and
\* isLoaded is set; the frame loop is already running
FpsLoadComplete ==
    /\ ~sim.isLoaded
    /\ sim' = [sim EXCEPT !.isLoaded = TRUE]
    /\ car' = DrivingSimulator_initVehicle(car, sim.startPosition)
    /\ ctl' = ControlsInit
    /\ audio' = DisposeAudio(ctl, audio)
    /\ last' = Step("loaded", 0, car, NoObs)
    /\ UNCHANGED <<ticks, keyEvents, cuePlays>>

NextFps ==
    \/ \E elapsed \in FpsElapsed : FpsAnimate(elapsed)
    \/ FpsReloadCity
    \/ FpsLoadComplete

SpecFps == InitFps /\ [][NextFps]_vars

----------------------------------------------------------------------------
\* Claims about Car.update

\* C1 (as claimed): after one Car.update from |speed| <= maxSpeed, the speed
\* is within the cap in force after the boost step of that update.
C1_ClampInvariant ==
    (last.name = "update" /\ Abs(last.preCar.speed) <= maxSpeed)
        => Abs(car.speed) <= EffectiveMaxSpeed(car)

\* C2 (as claimed): an update from rest with zero throttle and zero brake
\* leaves the speed at exactly 0 and the position unchanged.
C2_NoDriftFromStandstill ==
    (/\ last.name = "update"
     /\ last.preCar.speed = 0
     /\ last.preCar.throttleInput = 0
     /\ last.preCar.brakeInput = 0)
        => (car.speed = 0 /\ car.x = last.preCar.x /\ car.z = last.preCar.z)

\* C3: the boost meter stays in [0,100] over setBoost and update calls, and
\* an update in which the meter reaches 0 while boosting returns with
\* isBoosting false.
C3_BoostBounds ==
    /\ car.boostAmount >= 0
    /\ car.boostAmount <= boostFull
    /\ (/\ last.name = "update"
        /\ last.preCar.isBoosting
        /\ last.preCar.boostAmount > 0
        /\ car.boostAmount = 0) => ~car.isBoosting

\* C3 witness: an update whose drain exceeds what is left in the meter
C3_Witness ==
    /\ last.name = "update"
    /\ last.preCar.isBoosting
    /\ last.preCar.boostAmount > 0
    /\ Mul(boostDrainRate, last.delta) > last.preCar.boostAmount
    /\ car.boostAmount = 0
    /\ ~car.isBoosting

\* C4 (as claimed): an update called at speed 0 leaves the heading unchanged.
C4_NoSpinFromRest ==
    (last.name = "update" /\ last.preCar.speed = 0)
        => car.heading = last.preCar.heading

\* C4 (amended): an update whose speed step ends at |speed| <= 0.1, in
\* particular at speed 0, leaves the heading unchanged, whatever the steering
\* angle, handbrake and delta.
C4_NoSpinAtRest ==
    (last.name = "update" /\ Abs(car.speed) <= Scale \div 10)
        => car.heading = last.preCar.heading

\* C4 witness: steering applied in an update that starts and ends at rest
C4_Witness ==
    /\ last.name = "update"
    /\ last.delta > 0
    /\ last.preCar.speed = 0
    /\ last.preCar.steeringAngle # 0
    /\ car.speed = 0
    /\ car.heading = last.preCar.heading

\* the speed at which full throttle balances drag and rolling resistance:
\* 24 = 0.02 v^2 + 0.2 v
TerminalSpeed == 30 * Scale

\* C5 (as claimed): under full throttle every tick strictly increases the
\* speed until it equals the cap, and then keeps it there.
C5_StrictlyIncreasingToCap ==
    last.name = "update"
        => IF last.preCar.speed = EffectiveMaxSpeed(last.preCar)
           THEN car.speed = EffectiveMaxSpeed(car)
           ELSE car.speed > last.preCar.speed

\* C5 (amended): for a fixed delta of at most 0.5 s the speed never decreases,
\* strictly increases while it is below 29.9 m/s, and never exceeds the
\* drag equilibrium of 30 m/s, so it never reaches the cap.
C5_MonotoneToEquilibrium ==
    (last.name = "update" /\ last.delta <= Scale \div 2)
        => /\ car.speed >= last.preCar.speed
           /\ car.speed <= TerminalSpeed
           /\ car.speed < EffectiveMaxSpeed(car)
           /\ (last.preCar.speed < TerminalSpeed - Scale \div 10
                   => car.speed > last.preCar.speed)

\* C5 witness: the ramp has settled at the equilibrium, below the cap
C5_Witness ==
    /\ last.name = "update"
    /\ last.delta <= Scale \div 2
    /\ car.throttleInput = Scale
    /\ car.speed = last.preCar.speed
    /\ car.speed >= TerminalSpeed - Scale \div 10
    /\ car.speed < EffectiveMaxSpeed(car)

----------------------------------------------------------------------------
\* Claims about the startup cue (CarControls.update)

\* C8 (as claimed): in every CarControls.update tick during which the startup
\* cue is playing, the throttle and the brake handed to Car.setThrottle and
\* Car.setBrake are both exactly 0.
C8_GatedIntentNeutral ==
    (last.name = "tick" /\ last.isStartupPlaying)
        => (car.throttleInput = 0 /\ car.brakeInput = 0)

\* C9 (as claimed): from the tick that starts the startup cue at rest, and in
\* every tick in which the cue is still playing, the car's speed stays 0 and
\* its position is unchanged.
C9_NoMotionBeforeCueEnds ==
    (/\ last.name = "tick"
     /\ last.cueStarted \/ last.isStartupPlaying
     /\ last.preCar.speed = 0)
        => (/\ car.speed = 0
            /\ car.x = last.preCar.x
            /\ car.z = last.preCar.z)

\* C10 (as claimed): during one continuous hold of the forward key the
\* startup cue is started at most once.
C10_CueOncePerHold == cuePlays <= 1

\* C21 (as claimed): neither the engine generator nor the road-noise
\* generator is told to stop in two consecutive ticks.
C21_NoRepeatedStop ==
    (last.name = "tick") =>
        /\ ~(last.engineCmd = "stop" /\ last.prevCmd.engine = "stop")
        /\ ~(last.roadCmd = "stop" /\ last.prevCmd.road = "stop")

\* C24 (as claimed): with the steering keys released and the steering off
\* centre, the next tick leaves the steering further from centre when the
\* handbrake key is held than when it is not, at the same speed and delta.
C24_SlowerReturnWhileDrifting ==
    ("left" \notin ctl.keys /\ "right" \notin ctl.keys /\ ctl.steeringInput # 0) =>
        \A delta \in CtlDeltas :
            Abs(SmoothSteering([ctl EXCEPT !.keys = ctl.keys \cup {"handbrake"}],
                               Abs(car.speed), delta))
            > Abs(SmoothSteering([ctl EXCEPT !.keys = ctl.keys \ {"handbrake"}],
                                 Abs(car.speed), delta))

\* C25 (as claimed): the steering authority is exactly 1 below a positive
\* threshold speed: the first frame with one steering key held, from centred
\* steering and a speed below 1 m/s, moves the steering input towards the
\* full target 1
C25_FullAuthorityBelowThreshold ==
    (/\ last.name = "tick" /\ ticks = 1
     /\ ("left" \in ctl.keys) # ("right" \in ctl.keys)
     /\ Abs(last.preCar.speed) < Scale) =>
        ctl.steeringInput =
            Damp(0, IF "left" \in ctl.keys THEN Scale ELSE -Scale, steerRate, last.delta)

\* C25 (amended): the steering authority is 1 at rest, falls linearly from
\* speed 0 on (1 - |speed| / 35) down to the floor 0.35 at 22.75 m/s, stays
\* at the floor above, and is non-increasing in |speed|: the first frame
\* with one steering key held, from centred steering, moves the steering
\* input towards exactly that target
C25_LinearFromRest ==
    (/\ last.name = "tick" /\ ticks = 1
     /\ ("left" \in ctl.keys) # ("right" \in ctl.keys)) =>
        LET v == Abs(last.preCar.speed)
            floor == (35 * Scale) \div 100
            factor == IF v <= 22750 THEN Scale - Div(v, 35 * Scale) ELSE floor
        IN  /\ ctl.steeringInput =
                   Damp(0, IF "left" \in ctl.keys THEN factor ELSE -factor,
                        steerRate, last.delta)
            /\ factor >= floor /\ factor <= Scale
            /\ (factor = Scale) <=> (v < 35)
            /\ \A w \in SteerSpeeds :
                   Abs(w) <= v => SpeedFactor(Abs(w)) >= SpeedFactor(v)

C25_Witness ==
    /\ last.name = "tick" /\ ticks = 1 /\ last.delta = 1000
    /\ ctl.keys = {"left"}
    /\ last.preCar.speed = 7 * Scale
    /\ ctl.steeringInput = Damp(0, 800, steerRate, 1000)
    /\ ctl.steeringInput < Damp(0, Scale, steerRate, 1000)

\* C28 (as claimed): the first frame after resetCarPosition(), with none of
\* the driving keys held, leaves the car at rest at the reset position and
\* hands the car no throttle, brake or steering from before the reset
C28_ResetLeavesCarAtRest ==
    [][(/\ last.name = "reset" /\ last'.name = "tick"
        /\ ctl.keys \cap {"forward", "backward", "left", "right", "brake",
                          "boost", "handbrake"} = {}) =>
          /\ car'.speed = 0
          /\ car'.x = car.x /\ car'.z = car.z
          /\ car'.throttleInput = 0 /\ car'.brakeInput = 0
          /\ car'.steeringAngle = 0]_vars

\* C20 (as claimed): a tick in which CarControls.update calls
\* EngineSoundGenerator.start() is not one in which the startup cue is
\* playing or is started.
C20_EngineWaitsForCue ==
    (last.name = "tick" /\ last.engineCmd = "start") =>
        (~last.isStartupPlaying /\ ~last.cueStarted)

----------------------------------------------------------------------------
\* Claims about the simulator's life cycle

\* C6 (as claimed): once dispose() has returned, no frame is scheduled, the
\* position-save timer is not registered and no input listener of the
\* simulator's controls is registered, whatever happens afterwards.
C6_DisposeHaltsLoop ==
    sim.disposed =>
        (~sim.animationId /\ ~sim.positionSaveInterval /\ ~ctl.listening)

\* C7: when an init of a simulator in use completes successfully (first
\* load, reloadCity, or a new simulator after selectCity), the vehicle has
\* speed 0, steering 0, handbrake off, no boost and a full meter, and the
\* controls' smoothed throttle, brake and steering are 0.
C7_FreshSessionAfterReinit ==
    (last.name = "loaded" /\ ~sim.disposed) =>
        /\ car.speed = 0
        /\ car.steeringAngle = 0
        /\ ~car.handbrakeActive
        /\ ~car.isBoosting
        /\ car.boostAmount = boostFull
        /\ ctl.throttleInput = 0
        /\ ctl.brakeInput = 0
        /\ ctl.steeringInput = 0

\* a reload completed after a session that had the car moving under throttle
C7_Witness ==
    /\ last.name = "loaded"
    /\ ~sim.disposed
    /\ sim.loads >= 2
    /\ last.preCar.speed # 0
    /\ last.preCar.throttleInput # 0

----------------------------------------------------------------------------
\* Claims about the Car's public methods

\* C15 (as claimed): after every Car.update the speed and the position are
\* finite, whatever arguments the setters were given before (the heading is
\* finite in every state of SpecApi: an update with a NaN speed or steering
\* angle does not turn the car).
C15_FiniteAfterUpdate ==
    (last.name = "update") =>
        /\ car.special.speed = "finite"
        /\ car.special.x = "finite"
        /\ car.special.z = "finite"

\* C27 (as claimed): with throttle 0 and the brake applied, an update from
\* rest ends at rest and an update from a non-zero speed never ends with a
\* speed of the opposite sign
C27_BrakingNeverSetsInMotion ==
    (/\ last.name = "update"
     /\ last.preCar.throttleInput = 0
     /\ last.preCar.brakeInput > 0) =>
        /\ (last.preCar.speed = 0) => car.speed = 0
        /\ (last.preCar.speed > 0) => car.speed >= 0
        /\ (last.preCar.speed < 0) => car.speed <= 0

\* C26: after every Car.setBoost and every Car.update (delta >= 0) the car
\* boosts only with a non-empty meter; an update that starts boosting never
\* raises the meter and one that starts not boosting never lowers it
C26_BoostingImpliesMeter ==
    /\ (last.name \in {"update", "setBoost"} /\ car.isBoosting) => car.boostAmount > 0
    /\ (last.name = "update") =>
           /\ last.preCar.isBoosting => car.boostAmount <= last.preCar.boostAmount
           /\ ~last.preCar.isBoosting => car.boostAmount >= last.preCar.boostAmount

C26_Witness ==
    /\ last.name = "update" /\ last.delta = 1000
    /\ last.preCar.isBoosting /\ last.preCar.boostAmount = 10 * Scale
    /\ car.boostAmount = 0 /\ ~car.isBoosting

\* C22: the position change of a Car.update is the forward movement
\* speed * delta along the direction the car had before the update, plus,
\* exactly when the handbrake is on, |speed| > 2 after the longitudinal step
\* and |steeringAngle| > 0.01, a slide of steeringAngle * |speed| * 0.015 *
\* delta along the car's sideways axis.
C22_DriftDisplacement ==
    (last.name = "update") =>
        LET h       == last.preCar.heading
            slides  == /\ car.handbrakeActive
                       /\ Abs(car.speed) > 2 * Scale
                       /\ Abs(car.steeringAngle) > Scale \div 100
            slide   == IF slides
                       THEN Mul(Mul(Mul(car.steeringAngle, Abs(car.speed)), 15), last.delta)
                       ELSE 0
            forward == Mul(car.speed, last.delta)
        IN  /\ car.x - last.preCar.x = Mul(Cos(h), slide) + Mul(forward, Sin(h))
            /\ car.z - last.preCar.z = Mul(forward, Cos(h)) - Mul(Sin(h), slide)

\* a car facing +z with handbrake on, steering and speed above 2 m/s has
\* moved sideways as well as forward
C22_Witness ==
    /\ last.name = "update"
    /\ last.delta = 16
    /\ last.preCar.heading = 0
    /\ car.handbrakeActive
    /\ car.steeringAngle > 0
    /\ car.speed > 2 * Scale
    /\ car.x > last.preCar.x
    /\ car.z > last.preCar.z

\* C18: Car.resetPhysics() zeroes speed, throttle input, brake input and
\* steering angle, clears handbrake and isBoosting, leaves position, heading
\* and boostAmount as they were, and a second call changes nothing.
C18_ResetPhysics ==
    (last.name = "resetPhysics") =>
        /\ car.speed = 0
        /\ car.throttleInput = 0
        /\ car.brakeInput = 0
        /\ car.steeringAngle = 0
        /\ ~car.handbrakeActive
        /\ ~car.isBoosting
        /\ car.special = AllFinite
        /\ car.x = last.preCar.x
        /\ car.z = last.preCar.z
        /\ car.heading = last.preCar.heading
        /\ car.boostAmount = last.preCar.boostAmount
        /\ Car_resetPhysics(car) = car

\* a boosting, steering car that has moved, turned and drained its meter was
\* reset
C18_Witness ==
    /\ last.name = "resetPhysics"
    /\ last.preCar.speed # 0
    /\ last.preCar.throttleInput # 0
    /\ last.preCar.steeringAngle # 0
    /\ last.preCar.handbrakeActive
    /\ last.preCar.isBoosting
    /\ last.preCar.z # 0
    /\ last.preCar.heading # 0
    /\ last.preCar.boostAmount \in 1..(boostFull - 1)

\* C17 (as claimed): whatever the arguments of the calls, the stored
\* steering angle is within +-maxSteeringAngle, the stored throttle within
\* [-1, 1] and the stored brake within [0, 1].
C17_InputsWithinBounds ==
    /\ car.special.steeringAngle = "finite"
    /\ Abs(car.steeringAngle) <= maxSteeringAngle
    /\ car.special.throttleInput = "finite"
    /\ car.throttleInput \in (-Scale)..Scale
    /\ car.special.brakeInput = "finite"
    /\ car.brakeInput \in 0..Scale

----------------------------------------------------------------------------
\* Claims about the coordinate conversions

\* C16: for every city centre, localToLatLon followed by latLonToLocal gives
\* back the local position, and latLonToLocal followed by localToLatLon gives
\* back the coordinates, within the rounding of the units.
C16_GeoRoundTrip ==
    /\ (last.name = "saveThenRestore") =>
          /\ Abs(car.x - last.preCar.x) <= LocalTolerance
          /\ Abs(car.z - last.preCar.z) <= LocalTolerance
    /\ (last.name = "restoreThenSave") =>
          /\ Abs(sim.storage[sim.city].lat - sim.lastSavedPosition.lat) <= GeoTolerance
          /\ Abs(sim.storage[sim.city].lon - sim.lastSavedPosition.lon) <= GeoTolerance

\* a position 2 km east and south of Rabat's centre went through both
\* conversions, through coordinates away from the centre
C16_Witness ==
    /\ last.name = "saveThenRestore"
    /\ sim.city = "rabat"
    /\ last.preCar.x = 2000 * Scale
    /\ last.preCar.z = 2000 * Scale
    /\ sim.storage[sim.city].lon > CityCenter(sim.city).lon + 200000
    /\ sim.storage[sim.city].lat < CityCenter(sim.city).lat - 150000

----------------------------------------------------------------------------
\* Claims about the frame loop

\* C11: in every loaded frame the surface is sampled at the position the car
\* had before the frame, and the telemetry handed to the observers is that
\* of the car after the frame's single physics step.
C11_TelemetryAfterPhysics ==
    (last.name = "frame") =>
        /\ last.surfaceAt = [x |-> last.preCar.x, z |-> last.preCar.z]
        /\ last.tele = Telemetry(sim, car)

\* a loaded frame that moved the car
C11_Witness ==
    /\ last.name = "frame"
    /\ last.tele.speed > 0
    /\ car.z # last.preCar.z
    /\ last.tele # Telemetry(sim, last.preCar)

\* C12 (as claimed): in every loaded frame each of the speed, heading, boost
\* and coordinate observers is invoked, also when one of them throws.
C12_AllObserversInvoked ==
    (last.name = "frame") => last.invoked = 1..Len(Channels)

\* C14 (as claimed): after a failed map load the frame loop is registered
\* and the simulator has a car whose physics the frames advance.
C14_LoopStartsAfterLoadFailure ==
    (last.name = "loadFailed") => (sim.animationId /\ sim.hasCar)

\* C29 (as claimed): while the init call of the latest reloadCity() has not
\* completed, no frame runs CarControls.update or emits telemetry and no
\* firing of the save timer calls CityManager.savePosition
C29_NoPhysicsWhileReloading ==
    (\E i \in 1..Len(sim.pending) :
         sim.pending[i].reload /\ sim.pending[i].call = sim.loads) =>
        last.name \notin {"frame", "saved", "saveFailed"}

\* C23: the value passed to the FPS observers is the number of animate
\* calls since the report before (since construction for the first), loaded
\* or not; the frame counter is 0 after a report and counts the calls since
\* otherwise; two consecutive reports are at least 1000 ms apart.
C23_FpsCounter ==
    /\ \A i \in 1..Len(sim.reports) :
          /\ sim.reports[i].value =
                sim.reports[i].calls - (IF i = 1 THEN 0 ELSE sim.reports[i - 1].calls)
          /\ (i > 1) => sim.reports[i].at - sim.reports[i - 1].at >= 1000
    /\ sim.fpsFrames =
          ticks - (IF sim.reports = << >> THEN 0
                   ELSE sim.reports[Len(sim.reports)].calls)

\* a second report of several frames, one of them of an unloaded simulator
C23_Witness ==
    /\ Len(sim.reports) = 2
    /\ sim.reports[2].value = 3
    /\ sim.reports[2].calls = ticks
    /\ last.name = "idleFrame"
    /\ sim.fpsFrames = 0

----------------------------------------------------------------------------
\* Claims about the position-save timer

\* C13: a firing of the position-save timer calls CityManager.savePosition
\* exactly when the simulator is loaded and nothing was saved yet or the
\* car's latitude or longitude differs from the last saved one by more than
\* the threshold; after a save the remembered position is the written one;
\* a frame never writes.
C13_ThrottledPersistence ==
    [][ LET coords == SceneManager_localToLatLon(sim.city, car.x, car.z)
            prev   == sim.lastSavedPosition
            due    == /\ sim.isLoaded
                      /\ \/ ~prev.has
                         \/ Abs(coords.lat - prev.lat) > SaveThreshold
                         \/ Abs(coords.lon - prev.lon) > SaveThreshold
            called == last'.name \in {"saved", "saveFailed"}
        IN  /\ (sim'.saves = sim.saves + 1) =>
                  /\ called <=> due
                  /\ (last'.name = "saved") =>
                        /\ sim'.lastSavedPosition = coords
                        /\ sim'.storage[sim.city] = coords
            /\ (ticks' # ticks) =>
                  /\ ~called
                  /\ sim'.storage = sim.storage
                  /\ sim'.lastSavedPosition = sim.lastSavedPosition ]_vars

\* the timer fired on a loaded simulator whose car has moved since the last
\* save, by less than the threshold, and nothing was written
C13_Witness ==
    /\ last.name = "saveSkipped"
    /\ sim.isLoaded
    /\ sim.lastSavedPosition.has
    /\ SceneManager_localToLatLon(sim.city, car.x, car.z) # sim.lastSavedPosition
    /\ sim.storage[sim.city] = sim.lastSavedPosition

\* C19: a timer firing whose savePosition call throws changes nothing but
\* the history: the remembered position and the storage stay as they were,
\* the call is made once, the timer and the frame loop stay registered and
\* car and controls are untouched; while the simulator lives, frames and
\* timer firings go on after a failure.
C19_SaveFailureContained ==
    /\ [][ (last'.name = "saveFailed") =>
              /\ sim'.lastSavedPosition = sim.lastSavedPosition
              /\ sim'.storage = sim.storage
              /\ sim'.saveFailures = sim.saveFailures + 1
              /\ sim'.positionSaveInterval = sim.positionSaveInterval
              /\ sim'.animationId = sim.animationId
              /\ sim'.isLoaded = sim.isLoaded
              /\ <<car, ctl, audio>>' = <<car, ctl, audio>> ]_vars
    /\ []((sim.saveFailures > 0 /\ ~sim.disposed) =>
              sim.animationId /\ sim.positionSaveInterval)

\* a frame ran after a failed write, and the position that could not be
\* written is not remembered
C19_Witness ==
    /\ last.name = "frame"
    /\ sim.saveFailures > 0
    /\ ~sim.lastSavedPosition.has

----------------------------------------------------------------------------
\* Claims about the CityManager's saved positions

\* C30: getSavedPosition(city) returns the position most recently saved for
\* that city, whatever was saved for other cities since, and null when
\* nothing was saved for the city or the text stored last under its key
\* cannot be parsed
C30_PerCitySavedPosition ==
    (last.name = "getSavedPosition") => sim.got.value = sim.latest[sim.got.city]

\* monaco's position read back after a later save for rabat
C30_Witness ==
    /\ last.name = "getSavedPosition"
    /\ sim.got.city = "monaco"
    /\ ~sim.got.value.isNull
    /\ ~sim.latest["rabat"].isNull
    /\ sim.latest["rabat"] # sim.latest["monaco"]
    /\ sim.items[StorageKey("rabat")].present

====
